---- MODULE Spec2Model ----
(***************************************************************************)
(* Verification model of asionet (vendor/asionet): the asynchronous        *)
(* operation manager, its finished-operation notifier, the components      *)
(* built on it (Timer, DatagramReceiver) and closeable::timedAsyncOperation.*)
(***************************************************************************)
EXTENDS Integers, Sequences, FiniteSets, TLC

(***************************************************************************)
(* Bounds of the model.                                                    *)
(***************************************************************************)
MaxOps == 3
MaxCancels == 1
MaxMoves == 1

Range(s) == {s[i] : i \in 1..Len(s)}

(***************************************************************************)
(* Part 1: AsyncOperationManager.h                                         *)
(***************************************************************************)
VARIABLES policy, mgr, nextOp, ncancel, nmoves, notifiers, dispatched, finishCalls,
          replaced, dropped, cancelStamp, last

mgrVars == <<policy, mgr, nextOp, ncancel, nmoves, notifiers, dispatched, finishCalls,
             replaced, dropped, cancelStamp, last>>

\* Part 2: a Replacer component (DatagramReceiver, Timer) and its completions.
VARIABLES component, om, isOpen, rops, rnext, rcancels, handled, canceledOps,
          late

recvVars == <<component, om, isOpen, rops, rnext, rcancels, handled,
              canceledOps, late>>

\* Part 3: one closeable::timedAsyncOperation.
VARIABLES execThreads, handle, tm, twait, tpc, io, cpc, result, seenOpen,
          handlerCalls, completionRan, closeFirst, closedAfterCompletion

timedVars == <<execThreads, handle, tm, twait, tpc, io, cpc, result, seenOpen,
               handlerCalls, completionRan, closeFirst, closedAfterCompletion>>

\* Part 4: a Queue component (ServiceClient, DatagramSender, Resolver), its
\* calls, and the clock.
VARIABLES client, calls

clientVars == <<client, calls>>

\* Part 5: one Timer with one-shot and periodic timeouts.
VARIABLES timer, tops

timerVars == <<timer, tops>>

\* Part 6: one Waiter with two Waitables and the thread in await.
VARIABLES waiter

waitVars == <<waiter>>

\* Part 7: one frame written to and read from a stream or a datagram socket.
VARIABLES frame

codecVars == <<frame>>

\* Part 8: one ServiceServer, its acceptor and its connections.
VARIABLES server

serverVars == <<server>>

\* Part 10: the threads that take the mutex of a component's manager, the
\* mutex of a Timer's manager and the mutex of a Waiter.
VARIABLES locks

lockVars == <<locks>>

vars == <<mgrVars, recvVars, timedVars, clientVars, timerVars, waitVars, codecVars, serverVars, lockVars>>

IdleManager == [running |-> FALSE, canceled |-> FALSE, pendingOperations |-> <<>>]

Policies == {"Queue", "Replacer"}

\* PendingOperationQueue::shouldCancel / PendingOperationReplacer::shouldCancel
ShouldCancel(pol) == pol = "Replacer"

\* hasPendingOperation: !operations.empty() / operation != nullptr
HasPendingOperation(ops) == ops # <<>>

\* Mutant: the replacer keeps the pending record and adds the new one.
PushPendingOperation_Append(pol, ops, o) == Append(ops, o)

\* pushPendingOperation: operations.push(..) / operation = make_unique(..)
PushPendingOperation(pol, ops, o) ==
    IF pol = "Queue" THEN Append(ops, o) ELSE <<o>>

\* Mutant: the most recently pushed record is taken (operations.back()).
GetPendingOperation_Back(ops) == ops[Len(ops)]

\* getPendingOperation: operations.front() / *operation
GetPendingOperation(ops) == Head(ops)

\* popPendingOperation: operations.pop() / operation = nullptr
PopPendingOperation(pol, ops) ==
    IF pol = "Queue" THEN Tail(ops) ELSE <<>>

\* Mutant: reset leaves the container as it is.
Reset_Keep(ops) == ops

\* reset: operations = {} / operation = nullptr
Reset(ops) == <<>>

\* Mutant: startOperation without the test of running.
startOperation_NoRunningCheck(pol, m, o) ==
    [mgr |-> [m EXCEPT !.running = TRUE], dispatch |-> <<o>>, cancelings |-> 0]

\* AsyncOperationManager::startOperation, as a function of the manager state.
\* dispatch: the operations invoked; cancelings: calls of cancelingOperation.
startOperation(pol, m, o) ==
    IF ~m.running
    THEN [mgr |-> [m EXCEPT !.running = TRUE],
          dispatch |-> <<o>>, cancelings |-> 0]
    ELSE [mgr |-> [m EXCEPT !.pendingOperations =
                                PushPendingOperation(pol, @, o)],
          dispatch |-> <<>>,
          cancelings |-> IF ShouldCancel(pol) THEN 1 ELSE 0]

\* Mutant: finishOperation without running = false.
finishOperation_StaysRunning(pol, m) ==
    LET m1 == [m EXCEPT !.canceled = FALSE] IN
    IF ~HasPendingOperation(m1.pendingOperations)
    THEN [mgr |-> m1, dispatch |-> <<>>]
    ELSE [mgr |-> [m1 EXCEPT !.pendingOperations = PopPendingOperation(pol, @)],
          dispatch |-> <<GetPendingOperation(m1.pendingOperations)>>]

\* Mutant: finishOperation without canceled = false.
finishOperation_KeepCanceled(pol, m) ==
    IF ~HasPendingOperation(m.pendingOperations)
    THEN [mgr |-> [m EXCEPT !.running = FALSE], dispatch |-> <<>>]
    ELSE [mgr |-> [m EXCEPT !.pendingOperations = PopPendingOperation(pol, @)],
          dispatch |-> <<GetPendingOperation(m.pendingOperations)>>]

\* AsyncOperationManager::finishOperation
finishOperation(pol, m) ==
    LET m1 == [m EXCEPT !.canceled = FALSE] IN
    IF ~HasPendingOperation(m1.pendingOperations)
    THEN [mgr |-> [m1 EXCEPT !.running = FALSE], dispatch |-> <<>>]
    ELSE [mgr |-> [m1 EXCEPT !.pendingOperations = PopPendingOperation(pol, @)],
          dispatch |-> <<GetPendingOperation(m1.pendingOperations)>>]

\* AsyncOperationManager::cancelOperation
cancelOperation(m) ==
    [mgr |-> [m EXCEPT !.canceled = TRUE,
                       !.pendingOperations = Reset(@)],
     dispatch |-> <<>>, cancelings |-> 1]

\* FinishedOperationNotifier(manager): enabled{true}
NewNotifier == [enabled |-> TRUE, alive |-> TRUE]

\* Mutant: the move constructor without other.enabled = false.
MoveNotifier_KeepSource(chain, i) ==
    Append(chain, [enabled |-> chain[i].enabled, alive |-> TRUE])

\* FinishedOperationNotifier(FinishedOperationNotifier && other)
MoveNotifier(chain, i) ==
    Append([chain EXCEPT ![i].enabled = FALSE],
           [enabled |-> chain[i].enabled, alive |-> TRUE])

\* Mutant: a destructor that never calls finishOperation.
DestructorFinishes_Never(n) == FALSE

\* ~FinishedOperationNotifier: if (enabled) finishOperation()
DestructorFinishes(n) == n.enabled

\* The operations invoked by a manager call each construct the notifier of
\* their AsyncState.
Dispatch(nf, ds) ==
    [o \in DOMAIN nf |-> IF o \in Range(ds) THEN <<NewNotifier>> ELSE nf[o]]

Bump(fc, o) == [fc EXCEPT ![o] = IF @ < 2 THEN @ + 1 ELSE @]

NoLast == [kind |-> "init", op |-> 0, dispatch |-> <<>>, cancelings |-> 0,
           wasRunning |-> FALSE, wasCanceled |-> FALSE, finished |-> FALSE]

InitMgr ==
    /\ policy \in Policies
    /\ mgr = IdleManager
    /\ nextOp = 0
    /\ ncancel = 0
    /\ nmoves = 0
    /\ notifiers = [o \in 1..MaxOps |-> <<>>]
    /\ dispatched = <<>>
    /\ finishCalls = [o \in 1..MaxOps |-> 0]
    /\ replaced = {}
    /\ dropped = {}
    /\ cancelStamp = 0
    /\ last = NoLast
    \* the variables of the other parts are not used
    /\ component = "Receiver"
    /\ om = IdleManager
    /\ isOpen = FALSE
    /\ rops = <<>>
    /\ rnext = 0
    /\ rcancels = 0
    /\ handled = <<>>
    /\ canceledOps = {}
    /\ late = {}
    /\ execThreads = 1
    /\ handle = FALSE
    /\ tm = IdleManager
    /\ twait = "none"
    /\ tpc = "idle"
    /\ io = "none"
    /\ cpc = "idle"
    /\ result = "none"
    /\ seenOpen = FALSE
    /\ handlerCalls = 0
    /\ completionRan = FALSE
    /\ closeFirst = FALSE
    /\ closedAfterCompletion = FALSE
    /\ client = <<>>
    /\ calls = <<>>
    /\ timer = <<>>
    /\ tops = <<>>
    /\ waiter = <<>>
    /\ frame = <<>>
    /\ server = <<>>
    /\ locks = <<>>

\* A component entry point (asyncSend, asyncReceive, startTimeout, ...)
\* submitting operation nextOp + 1.
StartOperation ==
    /\ nextOp < MaxOps
    /\ LET o == nextOp + 1
           r == startOperation(policy, mgr, o)
       IN /\ nextOp' = o
          /\ mgr' = r.mgr
          /\ notifiers' = Dispatch(notifiers, r.dispatch)
          /\ dispatched' = dispatched \o r.dispatch
          /\ replaced' = replaced \cup
                 (Range(mgr.pendingOperations) \ Range(r.mgr.pendingOperations))
          /\ last' = [NoLast EXCEPT !.kind = "start", !.op = o,
                         !.dispatch = r.dispatch, !.cancelings = r.cancelings,
                         !.wasRunning = mgr.running,
                         !.wasCanceled = mgr.canceled]
    /\ UNCHANGED <<policy, ncancel, nmoves, finishCalls, dropped, cancelStamp>>
    /\ UNCHANGED <<recvVars, timedVars, clientVars, timerVars, waitVars, codecVars, serverVars, lockVars>>

\* A component's cancel() / stop().
CancelOperation ==
    /\ ncancel < MaxCancels
    /\ LET r == cancelOperation(mgr)
       IN /\ mgr' = r.mgr
          /\ dropped' = dropped \cup Range(mgr.pendingOperations)
          /\ last' = [NoLast EXCEPT !.kind = "cancel",
                         !.cancelings = r.cancelings,
                         !.wasRunning = mgr.running,
                         !.wasCanceled = mgr.canceled]
    /\ ncancel' = ncancel + 1
    /\ cancelStamp' = nextOp
    /\ UNCHANGED <<policy, nextOp, nmoves, notifiers, dispatched, finishCalls,
                   replaced>>
    /\ UNCHANGED <<recvVars, timedVars, clientVars, timerVars, waitVars, codecVars, serverVars, lockVars>>

\* The effect of a notifier of operation o calling finishOperation, given
\* the notifier chains nf after the notifier's own update.
Finish(o, nf, kind) ==
    LET r == finishOperation(policy, mgr)
    IN /\ mgr' = r.mgr
       /\ notifiers' = Dispatch(nf, r.dispatch)
       /\ dispatched' = dispatched \o r.dispatch
       /\ finishCalls' = Bump(finishCalls, o)
       /\ last' = [NoLast EXCEPT !.kind = kind, !.op = o,
                      !.dispatch = r.dispatch,
                      !.wasRunning = mgr.running,
                      !.wasCanceled = mgr.canceled,
                      !.finished = TRUE]

\* FinishedOperationNotifier::notify, called by the completion of operation o
\* on its notifier (every call site notifies the notifier of its AsyncState
\* once).
Notify(o, i) ==
    /\ i \in 1..Len(notifiers[o])
    /\ notifiers[o][i].alive
    /\ notifiers[o][i].enabled
    /\ Finish(o, [notifiers EXCEPT ![o][i].enabled = FALSE], "notify")
    /\ UNCHANGED <<policy, nextOp, ncancel, nmoves, replaced, dropped,
                   cancelStamp>>
    /\ UNCHANGED <<recvVars, timedVars, clientVars, timerVars, waitVars, codecVars, serverVars, lockVars>>

\* ~FinishedOperationNotifier
Destroy(o, i) ==
    /\ i \in 1..Len(notifiers[o])
    /\ notifiers[o][i].alive
    /\ LET nf == [notifiers EXCEPT ![o][i].alive = FALSE] IN
       IF DestructorFinishes(notifiers[o][i])
       THEN Finish(o, nf, "destroy")
       ELSE /\ notifiers' = nf
            /\ last' = [NoLast EXCEPT !.kind = "destroy", !.op = o,
                           !.wasRunning = mgr.running,
                           !.wasCanceled = mgr.canceled]
            /\ UNCHANGED <<mgr, dispatched, finishCalls>>
    /\ UNCHANGED <<policy, nextOp, ncancel, nmoves, replaced, dropped,
                   cancelStamp>>
    /\ UNCHANGED <<recvVars, timedVars, clientVars, timerVars, waitVars, codecVars, serverVars, lockVars>>

\* Move construction of a notifier from notifier i of operation o.
Move(o, i) ==
    /\ i \in 1..Len(notifiers[o])
    /\ notifiers[o][i].alive
    /\ nmoves < MaxMoves
    /\ nmoves' = nmoves + 1
    /\ notifiers' = [notifiers EXCEPT ![o] = MoveNotifier(@, i)]
    /\ last' = [NoLast EXCEPT !.kind = "move", !.op = o,
                   !.wasRunning = mgr.running, !.wasCanceled = mgr.canceled]
    /\ UNCHANGED <<policy, mgr, nextOp, ncancel, dispatched, finishCalls,
                   replaced, dropped, cancelStamp>>
    /\ UNCHANGED <<recvVars, timedVars, clientVars, timerVars, waitVars, codecVars, serverVars, lockVars>>

NotifyAny == \E o \in 1..MaxOps : \E i \in 1..(MaxMoves + 1) : Notify(o, i)
DestroyAny == \E o \in 1..MaxOps : \E i \in 1..(MaxMoves + 1) : Destroy(o, i)
MoveAny == \E o \in 1..MaxOps : \E i \in 1..(MaxMoves + 1) : Move(o, i)

NextMgr ==
    \/ StartOperation
    \/ CancelOperation
    \/ NotifyAny
    \/ DestroyAny
    \/ MoveAny

Spec == InitMgr /\ [][NextMgr]_vars

\* Every completion handler is eventually run and released by the executor,
\* which destroys the notifier it holds.
FairSpec == Spec /\ WF_vars(DestroyAny)

(***************************************************************************)
(* Properties of the manager (Spec, FairSpec).                             *)
(***************************************************************************)
\* An operation is unfinished while one of its notifiers is alive and enabled.
Unfinished(o) ==
    \E i \in 1..Len(notifiers[o]) :
        notifiers[o][i].alive /\ notifiers[o][i].enabled

InFlight == {o \in 1..MaxOps : Unfinished(o)}

LastDispatched == dispatched[Len(dispatched)]

\* C1: at most one operation is in flight at a time; an operation is
\* dispatched only by startOperation on an idle manager, or by the
\* finishOperation of the notifier of the operation dispatched before it.
C1_OneInFlight ==
    /\ Cardinality(InFlight) <= 1
    /\ \A k \in 1..(Len(dispatched) - 1) : ~Unfinished(dispatched[k])
    /\ last.dispatch # <<>> =>
          \/ /\ last.kind = "start"
             /\ ~last.wasRunning
             /\ last.dispatch = <<last.op>>
          \/ /\ last.finished
             /\ Len(dispatched) >= 2
             /\ last.op = dispatched[Len(dispatched) - 1]
             /\ finishCalls[last.op] = 1

C1_Witness ==
    /\ Len(dispatched) >= 2
    /\ last.kind = "start"
    /\ last.wasRunning
    /\ Cardinality(InFlight) = 1

\* C2: running is true exactly when a dispatched operation exists whose
\* notifier has neither notified nor been destroyed.
C2_RunningIffUnfinished == mgr.running <=> (InFlight # {})

C2_Witness ==
    /\ ~mgr.running
    /\ last.kind = "destroy"
    /\ last.finished
    /\ Len(dispatched) >= 2

\* C3: under Queue policy the operations are dispatched in the order of their
\* submission, none overtaking a record that is still pending, and each only
\* after the operation dispatched before it has finished.
C3_QueueFifo ==
    policy = "Queue" =>
        /\ \A i, j \in 1..Len(dispatched) :
               i < j => dispatched[i] < dispatched[j]
        /\ \A i, j \in 1..Len(mgr.pendingOperations) :
               i < j => mgr.pendingOperations[i] < mgr.pendingOperations[j]
        /\ \A o \in Range(mgr.pendingOperations) :
               dispatched # <<>> /\ o > LastDispatched
        /\ \A k \in 1..(Len(dispatched) - 1) :
               finishCalls[dispatched[k]] >= 1

C3_Witness ==
    /\ policy = "Queue"
    /\ Len(dispatched) >= 2
    /\ last.finished
    /\ last.dispatch # <<>>
    /\ mgr.pendingOperations # <<>>

\* C4: under Replacer policy a startOperation on a running manager calls the
\* canceling operation once and leaves its own record as the only pending
\* one; the container never holds two records and a replaced record is never
\* dispatched.
C4_ReplacerSupersedes ==
    policy = "Replacer" =>
        /\ Len(mgr.pendingOperations) <= 1
        /\ (last.kind = "start" /\ last.wasRunning) =>
               /\ last.cancelings = 1
               /\ mgr.pendingOperations = <<last.op>>
        /\ replaced \cap Range(dispatched) = {}
        /\ replaced \cap Range(mgr.pendingOperations) = {}

C4_Witness ==
    /\ policy = "Replacer"
    /\ replaced # {}
    /\ last.finished
    /\ last.dispatch # <<>>

\* C5: the notifiers of one dispatched operation (the constructed one and
\* those move-constructed from it) call finishOperation exactly once: not
\* before a notify() or the destruction of the enabled notifier, once from
\* then on, whatever is destroyed afterwards.
C5_NotifierOnce ==
    \A o \in 1..MaxOps :
        /\ finishCalls[o] <= 1
        /\ Unfinished(o) => finishCalls[o] = 0
        /\ (Len(notifiers[o]) > 0 /\ ~Unfinished(o)) => finishCalls[o] = 1
        /\ (last.op = o /\ last.kind = "destroy" /\ last.finished) =>
               \A i \in 1..Len(notifiers[o]) :
                   notifiers[o][i].enabled => ~notifiers[o][i].alive

C5_Witness ==
    \E o \in 1..MaxOps :
        /\ Len(notifiers[o]) = 2
        /\ \A i \in 1..2 : ~notifiers[o][i].alive
        /\ finishCalls[o] = 1
        /\ last.kind = "destroy"
        /\ ~last.finished

\* C6: after cancelOperation the pending container is empty, and a record
\* that cancelOperation removed is never dispatched (the user handler is an
\* argument held by the record, passed on only by its dispatch).
C6_CancelDrains ==
    /\ last.kind = "cancel" => mgr.pendingOperations = <<>>
    /\ dropped \cap Range(dispatched) = {}
    /\ dropped \cap Range(mgr.pendingOperations) = {}
    /\ dropped \cap InFlight = {}

C6_Witness ==
    /\ dropped # {}
    /\ last.finished
    /\ last.dispatch # <<>>
    /\ \A d \in dropped : d < LastDispatched

\* C8: running is cleared by finishOperation only; a cancelOperation with an
\* operation in flight is eventually followed by the finishOperation of that
\* operation, which clears canceled and either clears running (nothing
\* pending) or dispatches an operation submitted after the cancel.
C8_CancelThenFinish ==
    /\ [][(mgr.running /\ ~mgr'.running) => last'.finished]_vars
    /\ [][(last'.finished /\ last' # last) =>
            /\ ~mgr'.canceled
            /\ IF mgr.pendingOperations = <<>>
               THEN ~mgr'.running /\ dispatched' = dispatched
               ELSE /\ mgr'.running
                    /\ Len(dispatched') = Len(dispatched) + 1
                    /\ dispatched'[Len(dispatched')] \in
                           Range(mgr.pendingOperations)
                    /\ mgr.canceled =>
                           dispatched'[Len(dispatched')] > cancelStamp]_vars
    /\ (mgr.canceled /\ mgr.running) ~> (last.finished /\ ~mgr.canceled)

C8_Witness ==
    /\ last.finished
    /\ last.wasCanceled
    /\ last.dispatch # <<>>
    /\ LastDispatched > cancelStamp

(***************************************************************************)
(* Part 2: DatagramReceiver.h and Timer.h (one-shot): a component with a   *)
(* Replacer manager, its calls made from any thread, and the completion    *)
(* of each dispatched operation run step by step on an executor thread.    *)
(***************************************************************************)
Components == {"Receiver", "Timer"}

\* Mutant: the low-level code is tested before the handle.
TimedError_CodeFirst(open, code) ==
    IF code # "ok" THEN "failedOperation"
    ELSE IF ~open THEN "aborted"
    ELSE "success"

\* closeable::timedAsyncOperation: the error of the completion.
TimedError(open, code) ==
    IF ~open THEN "aborted"
    ELSE IF code # "ok" THEN "failedOperation"
    ELSE "success"

NewOp == [pc |-> "none", code |-> "ok", err |-> "none"]

\* Mutant: a close that does not complete the outstanding operation.
AbortOutstanding_Keep(ops) == ops

\* DatagramReceiver::cancelOperation (close of the socket) and
\* Timer::cancelOperation (timer.cancel()): an outstanding asynchronous
\* operation completes with operation_aborted; a completion that is already
\* queued keeps its code.
AbortOutstanding(ops) ==
    [o \in DOMAIN ops |->
        IF ops[o].pc = "wait"
        THEN [ops[o] EXCEPT !.pc = "queued", !.code = "aborted"]
        ELSE ops[o]]

\* The operations after a manager call with result r: asyncReceiveOperation /
\* startTimeoutOperation start the operations of r.dispatch, the records of
\* r.mgr are pending, and a record that is in neither was destroyed.
AfterCall(ops, r) ==
    [o \in DOMAIN ops |->
        IF o \in Range(r.dispatch) THEN [NewOp EXCEPT !.pc = "wait"]
        ELSE IF o \in Range(r.mgr.pendingOperations)
             THEN [NewOp EXCEPT !.pc = "pending"]
        ELSE IF ops[o].pc = "pending" THEN [NewOp EXCEPT !.pc = "discarded"]
        ELSE ops[o]]

\* The socket after a manager call: closed by the canceling operation,
\* opened by setupSocket of a dispatched receive. A Timer has no handle.
OpenAfterCall(comp, open, canceling, r) ==
    IF comp # "Receiver" THEN open
    ELSE IF r.dispatch # <<>> THEN TRUE
    ELSE IF canceling THEN FALSE
    ELSE open

\* The test at the head of the completion lambda:
\* Timer: if (error || isCanceled()) return;  Receiver: if (isCanceled()) return;
DropsCompletion(comp, code, canc) ==
    IF comp = "Timer" THEN code # "ok" \/ canc ELSE canc

\* An operation is unfinished for the manager until its notifier has called
\* finishOperation.
RInFlight == {o \in DOMAIN rops : rops[o].pc \in {"wait", "queued", "checked", "drop"}}

InitRecv ==
    /\ component \in Components
    /\ om = IdleManager
    /\ isOpen = (component = "Timer")
    /\ rops = [o \in 1..MaxOps |-> NewOp]
    /\ rnext = 0
    /\ rcancels = 0
    /\ handled = [o \in 1..MaxOps |-> "none"]
    /\ canceledOps = {}
    /\ late = {}
    \* the variables of the other parts are not used
    /\ policy = "Queue"
    /\ mgr = IdleManager
    /\ nextOp = 0
    /\ ncancel = 0
    /\ nmoves = 0
    /\ notifiers = <<>>
    /\ dispatched = <<>>
    /\ finishCalls = <<>>
    /\ replaced = {}
    /\ dropped = {}
    /\ cancelStamp = 0
    /\ last = NoLast
    /\ execThreads = 1
    /\ handle = FALSE
    /\ tm = IdleManager
    /\ twait = "none"
    /\ tpc = "idle"
    /\ io = "none"
    /\ cpc = "idle"
    /\ result = "none"
    /\ seenOpen = FALSE
    /\ handlerCalls = 0
    /\ completionRan = FALSE
    /\ closeFirst = FALSE
    /\ closedAfterCompletion = FALSE
    /\ client = <<>>
    /\ calls = <<>>
    /\ timer = <<>>
    /\ tops = <<>>
    /\ waiter = <<>>
    /\ frame = <<>>
    /\ server = <<>>
    /\ locks = <<>>

\* DatagramReceiver::asyncReceive / Timer::startTimeout
AsyncReceive ==
    /\ rnext < MaxOps
    /\ LET o == rnext + 1
           r == startOperation("Replacer", om, o)
           canceling == r.cancelings > 0
       IN /\ rnext' = o
          /\ om' = r.mgr
          /\ rops' = AfterCall(IF canceling THEN AbortOutstanding(rops)
                               ELSE rops, r)
          /\ isOpen' = OpenAfterCall(component, isOpen, canceling, r)
    /\ UNCHANGED <<component, rcancels, handled, canceledOps, late>>
    /\ UNCHANGED <<mgrVars, timedVars, clientVars, timerVars, waitVars, codecVars, serverVars, lockVars>>

\* DatagramReceiver::cancel / Timer::cancel
Cancel ==
    /\ rcancels < MaxCancels
    /\ LET r == cancelOperation(om)
       IN /\ om' = r.mgr
          /\ rops' = AfterCall(AbortOutstanding(rops), r)
          /\ isOpen' = OpenAfterCall(component, isOpen, TRUE, r)
    /\ rcancels' = rcancels + 1
    /\ canceledOps' = canceledOps \cup RInFlight
    /\ UNCHANGED <<component, rnext, handled, late>>
    /\ UNCHANGED <<mgrVars, timedVars, clientVars, timerVars, waitVars, codecVars, serverVars, lockVars>>

\* The datagram arrives (or the receive fails) / the timer expires.
IoCompletes(o, code) ==
    /\ rops[o].pc = "wait"
    /\ component = "Timer" => code = "ok"
    /\ rops' = [rops EXCEPT ![o].pc = "queued", ![o].code = code]
    /\ UNCHANGED <<component, om, isOpen, rnext, rcancels, handled,
                   canceledOps, late>>
    /\ UNCHANGED <<mgrVars, timedVars, clientVars, timerVars, waitVars, codecVars, serverVars, lockVars>>

\* The deadline of a receive expires: its timer closes the socket.
ReceiveTimesOut(o) ==
    /\ component = "Receiver"
    /\ rops[o].pc = "wait"
    /\ isOpen' = FALSE
    /\ rops' = AbortOutstanding(rops)
    /\ UNCHANGED <<component, om, rnext, rcancels, handled, canceledOps, late>>
    /\ UNCHANGED <<mgrVars, timedVars, clientVars, timerVars, waitVars, codecVars, serverVars, lockVars>>

\* The completion lambda starts on an executor thread and reads isCanceled().
CompletionChecks(o) ==
    /\ rops[o].pc = "queued"
    /\ rops' = [rops EXCEPT
                  ![o].pc = IF DropsCompletion(component, rops[o].code,
                                               om.canceled)
                            THEN "drop" ELSE "checked",
                  ![o].err = IF component = "Timer" THEN "fired"
                             ELSE TimedError(isOpen, rops[o].code)]
    /\ UNCHANGED <<component, om, isOpen, rnext, rcancels, handled,
                   canceledOps, late>>
    /\ UNCHANGED <<mgrVars, timedVars, clientVars, timerVars, waitVars, codecVars, serverVars, lockVars>>

\* state->finishedNotifier.notify()
CompletionNotifies(o) ==
    /\ rops[o].pc = "checked"
    /\ LET r == finishOperation("Replacer", om)
       IN /\ om' = r.mgr
          /\ rops' = AfterCall([rops EXCEPT ![o].pc = "notified"], r)
          /\ isOpen' = OpenAfterCall(component, isOpen, FALSE, r)
    /\ UNCHANGED <<component, rnext, rcancels, handled, canceledOps, late>>
    /\ UNCHANGED <<mgrVars, timedVars, clientVars, timerVars, waitVars, codecVars, serverVars, lockVars>>

\* state->handler(...)
CompletionCallsHandler(o) ==
    /\ rops[o].pc = "notified"
    /\ rops' = [rops EXCEPT ![o].pc = "done"]
    /\ handled' = [handled EXCEPT ![o] = rops[o].err]
    /\ late' = late \cup ({o} \cap canceledOps)
    /\ UNCHANGED <<component, om, isOpen, rnext, rcancels, canceledOps>>
    /\ UNCHANGED <<mgrVars, timedVars, clientVars, timerVars, waitVars, codecVars, serverVars, lockVars>>

\* The lambda returned at its test: the state is released and the destructor
\* of the enabled notifier calls finishOperation.
CompletionReturns(o) ==
    /\ rops[o].pc = "drop"
    /\ LET r == finishOperation("Replacer", om)
       IN /\ om' = r.mgr
          /\ rops' = AfterCall([rops EXCEPT ![o].pc = "done"], r)
          /\ isOpen' = OpenAfterCall(component, isOpen, FALSE, r)
    /\ UNCHANGED <<component, rnext, rcancels, handled, canceledOps, late>>
    /\ UNCHANGED <<mgrVars, timedVars, clientVars, timerVars, waitVars, codecVars, serverVars, lockVars>>

IoCompletesAny == \E o \in 1..MaxOps : \E code \in {"ok", "error"} : IoCompletes(o, code)
ReceiveTimesOutAny == \E o \in 1..MaxOps : ReceiveTimesOut(o)
CompletionChecksAny == \E o \in 1..MaxOps : CompletionChecks(o)
CompletionNotifiesAny == \E o \in 1..MaxOps : CompletionNotifies(o)
CompletionCallsHandlerAny == \E o \in 1..MaxOps : CompletionCallsHandler(o)
CompletionReturnsAny == \E o \in 1..MaxOps : CompletionReturns(o)

NextRecv ==
    \/ AsyncReceive
    \/ Cancel
    \/ IoCompletesAny
    \/ ReceiveTimesOutAny
    \/ CompletionChecksAny
    \/ CompletionNotifiesAny
    \/ CompletionCallsHandlerAny
    \/ CompletionReturnsAny

SpecRecv == InitRecv /\ [][NextRecv]_vars

\* C7: once cancel() has returned, the user handler of an operation that was
\* in flight at that cancel (its wait outstanding, its completion queued, or
\* its completion being run by an executor thread) is not invoked.
C7_NoHandlerAfterCancel == late = {}

(***************************************************************************)
(* Part 3: Closeable.h, one closeable::timedAsyncOperation on a handle:    *)
(* its Timer (Timer.h, with the Timer's own Replacer manager tm), the      *)
(* asynchronous operation, and the two handlers wrapped by the serializer. *)
(* The serializer runs the handlers wrapped by it one at a time; a wrapped *)
(* handler called while another one runs is run after it.                  *)
(***************************************************************************)
\* The handlers that occupy an executor thread: the wait handler of the
\* Timer between its test and its return, and the completion.
Active ==
    (IF tpc \in {"checked", "notified", "drop", "closing"} THEN 1 ELSE 0)
    + (IF cpc = "inStrand" THEN 1 ELSE 0)

\* timer.cancel(): an outstanding wait completes with operation_aborted, a
\* wait that has expired keeps its queued handler and its success code.
TimerCancel(w) == IF w = "armed" THEN "aborted" ELSE w

\* close() of the handle: an outstanding operation completes with
\* operation_aborted.
IoAfterClose(i) == IF i = "pending" THEN "aborted" ELSE i

\* The serializer has no wrapped handler running.
SerializerFree == cpc # "inStrand" /\ tpc # "closing"

InitTimed ==
    /\ execThreads \in {1, 2}
    /\ handle = TRUE
    /\ tm = IdleManager
    /\ twait = "none"
    /\ tpc = "idle"
    /\ io = "none"
    /\ cpc = "idle"
    /\ result = "none"
    /\ seenOpen = FALSE
    /\ handlerCalls = 0
    /\ completionRan = FALSE
    /\ closeFirst = FALSE
    /\ closedAfterCompletion = FALSE
    \* the variables of the other parts are not used
    /\ policy = "Queue"
    /\ mgr = IdleManager
    /\ nextOp = 0
    /\ ncancel = 0
    /\ nmoves = 0
    /\ notifiers = <<>>
    /\ dispatched = <<>>
    /\ finishCalls = <<>>
    /\ replaced = {}
    /\ dropped = {}
    /\ cancelStamp = 0
    /\ last = NoLast
    /\ component = "Receiver"
    /\ om = IdleManager
    /\ isOpen = FALSE
    /\ rops = <<>>
    /\ rnext = 0
    /\ rcancels = 0
    /\ handled = <<>>
    /\ canceledOps = {}
    /\ late = {}
    /\ client = <<>>
    /\ calls = <<>>
    /\ timer = <<>>
    /\ tops = <<>>
    /\ waiter = <<>>
    /\ frame = <<>>
    /\ server = <<>>
    /\ locks = <<>>

\* timedAsyncOperation: timer->startTimeout(...) on the new Timer, then
\* asyncOperation(...).
TimedAsyncOperation ==
    /\ io = "none"
    /\ LET r == startOperation("Replacer", tm, 1)
       IN /\ tm' = r.mgr
          /\ twait' = IF r.dispatch # <<>> THEN "armed" ELSE twait
    /\ io' = "pending"
    /\ UNCHANGED <<execThreads, handle, tpc, cpc, result, seenOpen,
                   handlerCalls, completionRan, closeFirst,
                   closedAfterCompletion>>
    /\ UNCHANGED <<mgrVars, recvVars, clientVars, timerVars, waitVars, codecVars, serverVars, lockVars>>

\* The deadline passes.
TimerExpires ==
    /\ twait = "armed"
    /\ twait' = "expired"
    /\ UNCHANGED <<execThreads, handle, tm, tpc, io, cpc, result, seenOpen,
                   handlerCalls, completionRan, closeFirst,
                   closedAfterCompletion>>
    /\ UNCHANGED <<mgrVars, recvVars, clientVars, timerVars, waitVars, codecVars, serverVars, lockVars>>

\* The asynchronous operation completes with a low-level code.
IoFinishes(code) ==
    /\ io = "pending"
    /\ io' = code
    /\ UNCHANGED <<execThreads, handle, tm, twait, tpc, cpc, result, seenOpen,
                   handlerCalls, completionRan, closeFirst,
                   closedAfterCompletion>>
    /\ UNCHANGED <<mgrVars, recvVars, clientVars, timerVars, waitVars, codecVars, serverVars, lockVars>>

\* The owner of the handle closes it (the canceling operation of a
\* component, Closer::close), from any thread.
ExternalClose ==
    /\ handle
    /\ io # "none"
    /\ handle' = FALSE
    /\ io' = IoAfterClose(io)
    /\ UNCHANGED <<execThreads, tm, twait, tpc, cpc, result, seenOpen,
                   handlerCalls, completionRan, closeFirst,
                   closedAfterCompletion>>
    /\ UNCHANGED <<mgrVars, recvVars, clientVars, timerVars, waitVars, codecVars, serverVars, lockVars>>

\* Timer::startTimeoutOperation, wait handler: if (error || isCanceled()) return;
TimerHandlerChecks ==
    /\ twait \in {"expired", "aborted"}
    /\ tpc = "idle"
    /\ Active < execThreads
    /\ tpc' = IF DropsCompletion("Timer", IF twait = "expired" THEN "ok"
                                          ELSE "aborted", tm.canceled)
              THEN "drop" ELSE "checked"
    /\ UNCHANGED <<execThreads, handle, tm, twait, io, cpc, result, seenOpen,
                   handlerCalls, completionRan, closeFirst,
                   closedAfterCompletion>>
    /\ UNCHANGED <<mgrVars, recvVars, clientVars, timerVars, waitVars, codecVars, serverVars, lockVars>>

\* The wait handler returned at its test: ~AsyncState calls finishOperation.
TimerHandlerReturns ==
    /\ tpc = "drop"
    /\ tm' = finishOperation("Replacer", tm).mgr
    /\ tpc' = "done"
    /\ UNCHANGED <<execThreads, handle, twait, io, cpc, result, seenOpen,
                   handlerCalls, completionRan, closeFirst,
                   closedAfterCompletion>>
    /\ UNCHANGED <<mgrVars, recvVars, clientVars, timerVars, waitVars, codecVars, serverVars, lockVars>>

\* state->notifier.notify()
TimerHandlerNotifies ==
    /\ tpc = "checked"
    /\ tm' = finishOperation("Replacer", tm).mgr
    /\ tpc' = "notified"
    /\ UNCHANGED <<execThreads, handle, twait, io, cpc, result, seenOpen,
                   handlerCalls, completionRan, closeFirst,
                   closedAfterCompletion>>
    /\ UNCHANGED <<mgrVars, recvVars, clientVars, timerVars, waitVars, codecVars, serverVars, lockVars>>

\* state->handler(): the wrapped timeout handler enters the serializer now
\* if the serializer is free, and is left to the serializer otherwise.
TimerHandlerInvokes ==
    /\ tpc = "notified"
    /\ tpc' = IF SerializerFree THEN "closing" ELSE "wantClose"
    /\ UNCHANGED <<execThreads, handle, tm, twait, io, cpc, result, seenOpen,
                   handlerCalls, completionRan, closeFirst,
                   closedAfterCompletion>>
    /\ UNCHANGED <<mgrVars, recvVars, clientVars, timerVars, waitVars, codecVars, serverVars, lockVars>>

\* The serializer runs the timeout handler that was left to it.
SerializerRunsClose ==
    /\ tpc = "wantClose"
    /\ SerializerFree
    /\ Active < execThreads
    /\ tpc' = "closing"
    /\ UNCHANGED <<execThreads, handle, tm, twait, io, cpc, result, seenOpen,
                   handlerCalls, completionRan, closeFirst,
                   closedAfterCompletion>>
    /\ UNCHANGED <<mgrVars, recvVars, clientVars, timerVars, waitVars, codecVars, serverVars, lockVars>>

\* The timeout handler of timedAsyncOperation: Closer::close(closeable).
CloseByTimer ==
    /\ tpc = "closing"
    /\ handle' = FALSE
    /\ io' = IoAfterClose(io)
    /\ closeFirst' = (closeFirst \/ ~completionRan)
    /\ closedAfterCompletion' = (closedAfterCompletion \/ (completionRan /\ handle))
    /\ tpc' = "done"
    /\ UNCHANGED <<execThreads, tm, twait, cpc, result, seenOpen,
                   handlerCalls, completionRan>>
    /\ UNCHANGED <<mgrVars, recvVars, clientVars, timerVars, waitVars, codecVars, serverVars, lockVars>>

\* The completion of the operation enters the serializer: timer->cancel().
CompletionStarts ==
    /\ io \in {"ok", "error", "aborted"}
    /\ cpc = "idle"
    /\ SerializerFree
    /\ Active < execThreads
    /\ cpc' = "inStrand"
    /\ tm' = cancelOperation(tm).mgr
    /\ twait' = TimerCancel(twait)
    /\ UNCHANGED <<execThreads, handle, tpc, io, result, seenOpen,
                   handlerCalls, completionRan, closeFirst,
                   closedAfterCompletion>>
    /\ UNCHANGED <<mgrVars, recvVars, clientVars, timerVars, waitVars, codecVars, serverVars, lockVars>>

\* The completion tests the handle and calls the handler given to
\* timedAsyncOperation.
CompletionCallsUser ==
    /\ cpc = "inStrand"
    /\ seenOpen' = handle
    /\ result' = TimedError(handle, io)
    /\ handlerCalls' = handlerCalls + 1
    /\ completionRan' = TRUE
    /\ cpc' = "done"
    /\ UNCHANGED <<execThreads, handle, tm, twait, tpc, io, closeFirst,
                   closedAfterCompletion>>
    /\ UNCHANGED <<mgrVars, recvVars, clientVars, timerVars, waitVars, codecVars, serverVars, lockVars>>

IoFinishesAny == \E code \in {"ok", "error"} : IoFinishes(code)

NextTimed ==
    \/ TimedAsyncOperation
    \/ TimerExpires
    \/ IoFinishesAny
    \/ ExternalClose
    \/ TimerHandlerChecks
    \/ TimerHandlerReturns
    \/ TimerHandlerNotifies
    \/ TimerHandlerInvokes
    \/ SerializerRunsClose
    \/ CloseByTimer
    \/ CompletionStarts
    \/ CompletionCallsUser

SpecTimed == InitTimed /\ [][NextTimed]_vars

\* C9: timedAsyncOperation calls its handler once, when the completion has
\* run, with aborted exactly if the handle was not open at the completion's
\* test, else failedOperation if the low-level code is an error, else success.
C9_TimedResult ==
    /\ handlerCalls <= 1
    /\ (handlerCalls = 1) <=> (cpc = "done")
    /\ (handlerCalls = 0) <=> (result = "none")
    /\ result # "none" =>
          /\ (result = "aborted") <=> ~seenOpen
          /\ (seenOpen /\ io # "ok") => result = "failedOperation"
          /\ (seenOpen /\ io = "ok") => result = "success"

C9_Witness ==
    /\ result = "aborted"
    /\ io = "ok"
    /\ closeFirst
    /\ handlerCalls = 1

\* C10: the two wrapped handlers never run at the same time; once the
\* completion has run the timeout handler does not close the open handle;
\* and a completion that runs after the timeout handler reports aborted.
C10_FirstWins ==
    /\ ~(cpc = "inStrand" /\ tpc = "closing")
    /\ ~closedAfterCompletion
    /\ (closeFirst /\ result # "none") => result = "aborted"

(***************************************************************************)
(* Part 4: ServiceClient.h, DatagramSender.h, Resolver.h: a component with *)
(* a Queue manager. A dispatched call runs its stages (Socket.h, Stream.h, *)
(* Message.h), each a closeable::timedAsyncOperation; the clock counts the *)
(* time between the calls, the deadlines and the handlers.                 *)
(***************************************************************************)
MaxCalls == 2
MaxTime == 2
Timeouts == {1}

ClientKinds == {"ServiceClient", "DatagramSender", "Resolver"}

InFlightStages ==
    {"resolve", "connect", "write", "readHeader", "readPayload", "send"}

\* A call: its state (st: the stage in flight), the operation of the stage
\* (io), its arguments, the time since it was made (age) and since it was
\* dispatched (run), and the number n of invocations of its handler.
\* timeout, start: state->timeout and state->startTime (as the time since
\* the dispatch); ltimeout, lstart: the timeout and startTime captured by the
\* lambdas of socket::asyncConnect(host, port) and stream::asyncRead; armed:
\* the expiry of the timer of the stage in flight, since the dispatch.
NoCall == [st |-> "none", io |-> "none", T |-> 0, host |-> 0,
           byHost |-> FALSE, age |-> 0, run |-> 0, n |-> 0,
           timedOut |-> "none", canceledIn |-> "none", encOk |-> TRUE,
           timeout |-> 0, start |-> 0, ltimeout |-> 0, lstart |-> 0,
           armed |-> 0]

\* The latest invocation of a user handler: the call, its arguments (err,
\* resp), the stage (fin) whose completion made it, and of the call: the
\* time since it was made, its timeout, the stage in which its deadline
\* expired and the stage in which it was cancelled.
NoHandler == [op |-> 0, err |-> "none", resp |-> 0, fin |-> "none",
              elapsed |-> 0, T |-> 0, host |-> 0, encOk |-> TRUE,
              timedOut |-> "none", canceledIn |-> "none", ran |-> {}]

\* The statements of the lambda that ends a call, in the order of the code:
\* ServiceClient: socket.close(); finishedNotifier.notify(); handler(...);
\* DatagramSender and Resolver: finishedNotifier.notify(); handler(...).
EndStatements(kind) ==
    IF kind = "ServiceClient" THEN <<"close", "notify", "handler">>
    ELSE <<"notify", "handler">>

\* The statements that have run when the user handler is called.
RanBefore(stmts) ==
    LET i == CHOOSE j \in DOMAIN stmts : stmts[j] = "handler"
    IN {stmts[j] : j \in 1..(i - 1)}

\* ran: the statements of the ending lambda that ran before the handler; the
\* handler posted by encode (fin = "none") is a task of its own.
HandlerOf(o, c, e, resp, fin) ==
    [op |-> o, err |-> e, resp |-> resp, fin |-> fin, elapsed |-> c.age,
     T |-> c.T, host |-> c.host, encOk |-> c.encOk,
     timedOut |-> c.timedOut, canceledIn |-> c.canceledIn,
     ran |-> IF fin = "none" THEN {}
             ELSE RanBefore(EndStatements(client.kind))]

\* The closeable of a stage is the member handle of the component (socket,
\* resolver), except for the resolve stage of socket::asyncConnect(host, port),
\* which runs on a resolver of its own.
OnMember(kind, stage) == ~(kind = "ServiceClient" /\ stage = "resolve")

\* The first stage of asyncCallOperation / asyncSendOperation /
\* asyncResolveOperation.
FirstStage(kind, byHost) ==
    IF kind = "ServiceClient" THEN (IF byHost THEN "resolve" ELSE "connect")
    ELSE IF kind = "DatagramSender" THEN "send"
    ELSE "resolve"

\* close() of the member handle: the outstanding operation on it completes
\* with operation_aborted; a completion that is queued keeps its code.
AbortOnMember(kind, cs) ==
    [o \in DOMAIN cs |->
        IF cs[o].st \in InFlightStages /\ OnMember(kind, cs[o].st)
           /\ cs[o].io = "pending"
        THEN [cs[o] EXCEPT !.io = "aborted"]
        ELSE cs[o]]

\* Mutant: the encoder's failure is not looked at.
encode_Ignored(ok) == [sendData |-> TRUE, post |-> FALSE]

\* ServiceClient::encode / the head of DatagramSender::asyncSend: on failure
\* the handler is posted to the context and no data is returned.
encode(ok) ==
    IF ok THEN [sendData |-> TRUE, post |-> FALSE]
    ELSE [sendData |-> FALSE, post |-> TRUE]

\* Mutant: the error of the timed operation is handed on before the test
\* of the bytes transferred.
WriteError_ErrorFirst(e, code) ==
    IF e # "success" THEN e
    ELSE IF code # "ok" THEN "failedOperation" ELSE e

\* Stream.h asyncWrite / Socket.h asyncSendTo, completion: a short transfer
\* is reported as failedOperation, whatever the error of the timed operation.
\* The transfer is complete exactly if the low-level code is success.
WriteError(e, code) == IF code # "ok" THEN "failedOperation" ELSE e

\* Message.h asyncReceive, completion: a decoder that throws replaces the
\* error by decoding; the message is the decoded payload, or default.
Receive(e, payload, dec, peer) ==
    IF ~dec THEN [finish |-> TRUE, next |-> "none", err |-> "decoding", resp |-> 0]
    ELSE [finish |-> TRUE, next |-> "none", err |-> e,
          resp |-> IF payload THEN peer ELSE 0]

Continue(stage) == [finish |-> FALSE, next |-> stage, err |-> "none", resp |-> 0]

Fail(e) == [finish |-> TRUE, next |-> "none", err |-> e, resp |-> 0]

\* Mutant: connectHandler without the return of its error branch.
connectHandler_NoReturn(e) ==
    [finish |-> e # "success", next |-> "write", err |-> e, resp |-> 0]

\* ServiceClient::connectHandler
connectHandler(e) == IF e # "success" THEN Fail(e) ELSE Continue("write")

\* The completion of a stage: the error of the timed operation, then the
\* handler of the stage. The result is the next stage, or the error and the
\* response given to the user handler.
StageStep(kind, stage, open, code, zero, dec, peer) ==
    LET e == TimedError(open, code) IN
    CASE kind = "Resolver" -> Fail(e)
      [] kind = "DatagramSender" -> Fail(WriteError(e, code))
      [] kind = "ServiceClient" /\ stage = "resolve" ->
            IF e # "success" THEN Fail(e) ELSE Continue("connect")
      [] kind = "ServiceClient" /\ stage = "connect" ->
            connectHandler(e)
      [] kind = "ServiceClient" /\ stage = "write" ->
            IF WriteError(e, code) # "success"
            THEN Fail(WriteError(e, code)) ELSE Continue("readHeader")
      [] kind = "ServiceClient" /\ stage = "readHeader" ->
            IF e # "success" THEN Receive(e, FALSE, dec, peer)
            ELSE IF zero THEN Receive(e, FALSE, dec, peer)
            ELSE Continue("readPayload")
      [] OTHER ->
            Receive(e, e = "success", dec, peer)

\* Mutant: the socket is closed only when the call ends with success.
SocketAfterStage_KeepOnError(kind, open, r) ==
    IF r.finish /\ kind = "ServiceClient" /\ r.err = "success" THEN FALSE
    ELSE IF r.next = "connect" THEN TRUE ELSE open

\* The socket after the handler of a stage with result r: every path of
\* connectHandler, writeHandler and the read handler of a ServiceClient that
\* ends the call runs socket.close(); async_connect after the resolve opens
\* the socket.
SocketAfterStage(kind, open, r) ==
    IF r.finish /\ kind = "ServiceClient" THEN FALSE
    ELSE IF r.next = "connect" THEN TRUE ELSE open

\* The component after the manager dispatched the calls ds:
\* ServiceClient: newSocket(), then the resolver of asyncConnect(host, port)
\* or async_connect, which opens the socket; DatagramSender: setupSocket();
\* Resolver: resolver.open().
ClientAfterDispatch(c, cs, ds) ==
    IF ds = <<>> THEN c
    ELSE IF c.kind = "ServiceClient"
         THEN [c EXCEPT !.open = ~cs[ds[1]].byHost, !.peer = 0,
                        !.res = cs[ds[1]].byHost]
    ELSE [c EXCEPT !.open = TRUE]

\* Mutant: updateTimeout without startTime = nowTime.
updateTimeout_KeepStart(timeout, startTime, nowTime) ==
    [timeout |-> timeout - (nowTime - startTime), startTime |-> startTime]

\* ServiceClient::updateTimeout: timeSpend = nowTime - startTime;
\* startTime = nowTime; timeout -= timeSpend.
updateTimeout(timeout, startTime, nowTime) ==
    [timeout |-> timeout - (nowTime - startTime), startTime |-> nowTime]

\* socket::asyncConnect(host, port) after the resolve and stream::asyncRead
\* after the header: newTimeout = timeout - (time::now() - startTime).
NewTimeout(timeout, startTime, nowTime) == timeout - (nowTime - startTime)

\* Timer::startTimeout(duration): timer.expires_from_now(duration).
ExpiresFromNow(nowTime, duration) == nowTime + duration

\* asyncCallOperation: state->timeout = timeout, state->startTime =
\* time::now(); the first stage is started with that timeout, and
\* asyncConnect(host, port) captures it with its own startTime.
ArmFirst(c, stage) ==
    [c EXCEPT !.timeout = c.T, !.start = 0,
              !.ltimeout = IF stage = "resolve" THEN c.T ELSE 0,
              !.lstart = 0,
              !.armed = ExpiresFromNow(0, c.T)]

\* The timeout with which the handler of a stage starts the next one, at the
\* time c.run since the dispatch: connectHandler and writeHandler call
\* updateTimeout; the lambdas of asyncConnect and asyncRead use the values
\* they captured.
ArmNext(c, next) ==
    IF next \in {"connect", "readPayload"}
    THEN [c EXCEPT !.armed = ExpiresFromNow(
                                 c.run, NewTimeout(c.ltimeout, c.lstart, c.run)),
                   !.ltimeout = 0, !.lstart = 0]
    ELSE LET u == updateTimeout(c.timeout, c.start, c.run)
         IN [c EXCEPT !.timeout = u.timeout, !.start = u.startTime,
                      !.ltimeout = IF next = "readHeader" THEN u.timeout ELSE 0,
                      !.lstart = IF next = "readHeader" THEN c.run ELSE 0,
                      !.armed = ExpiresFromNow(c.run, u.timeout)]

\* The calls after the manager dispatched ds and kept the records pend: a
\* record that is no longer kept was destroyed.
CallsAfter(kind, cs, ds, pend) ==
    [o \in DOMAIN cs |->
        IF o \in Range(ds)
        THEN [ArmFirst(cs[o], FirstStage(kind, cs[o].byHost))
                 EXCEPT !.st = FirstStage(kind, cs[o].byHost),
                        !.io = "pending", !.run = 0]
        ELSE IF cs[o].st = "pending" /\ o \notin Range(pend)
             THEN [NoCall EXCEPT !.st = "dropped"]
        ELSE cs[o]]

Older(age) == IF age < MaxTime THEN age + 1 ELSE age

\* The deadline of a call is due: the timer of its stage has expired.
Due(c) == c.run >= c.armed

InitClient ==
    /\ client \in [kind : ClientKinds, om : {IdleManager}, open : {FALSE},
                   peer : {0}, res : {FALSE}, late : {FALSE},
                   next : {0}, h : {NoHandler}]
    /\ calls = [o \in 1..MaxCalls |-> NoCall]
    \* the variables of the other parts are not used
    /\ policy = "Queue"
    /\ mgr = IdleManager
    /\ nextOp = 0
    /\ ncancel = 0
    /\ nmoves = 0
    /\ notifiers = <<>>
    /\ dispatched = <<>>
    /\ finishCalls = <<>>
    /\ replaced = {}
    /\ dropped = {}
    /\ cancelStamp = 0
    /\ last = NoLast
    /\ component = "Receiver"
    /\ om = IdleManager
    /\ isOpen = FALSE
    /\ rops = <<>>
    /\ rnext = 0
    /\ rcancels = 0
    /\ handled = <<>>
    /\ canceledOps = {}
    /\ late = {}
    /\ execThreads = 1
    /\ handle = FALSE
    /\ tm = IdleManager
    /\ twait = "none"
    /\ tpc = "idle"
    /\ io = "none"
    /\ cpc = "idle"
    /\ result = "none"
    /\ seenOpen = FALSE
    /\ handlerCalls = 0
    /\ completionRan = FALSE
    /\ closeFirst = FALSE
    /\ closedAfterCompletion = FALSE
    /\ timer = <<>>
    /\ tops = <<>>
    /\ waiter = <<>>
    /\ frame = <<>>
    /\ server = <<>>
    /\ locks = <<>>

\* ServiceClient::asyncCall / DatagramSender::asyncSend /
\* Resolver::asyncResolve (which encodes nothing). Each call names a server
\* of its own.
AsyncCall(ok, T, byHost) ==
    /\ client.next < MaxCalls
    /\ client.kind = "Resolver" => ok
    /\ client.kind # "ServiceClient" => ~byHost
    /\ LET o == client.next + 1
           e == encode(ok)
           c0 == [NoCall EXCEPT !.T = T, !.host = o, !.byHost = byHost,
                                !.encOk = ok]
       IN IF ~e.sendData
          THEN /\ calls' = [calls EXCEPT ![o] =
                               IF e.post THEN [c0 EXCEPT !.st = "posted"]
                               ELSE c0]
               /\ client' = [client EXCEPT !.next = o]
          ELSE LET r == startOperation("Queue", client.om, o)
                   cs == [calls EXCEPT ![o] = [c0 EXCEPT !.st = "pending"]]
               IN /\ calls' = CallsAfter(client.kind, cs, r.dispatch,
                                         r.mgr.pendingOperations)
                  /\ client' = ClientAfterDispatch(
                                   [client EXCEPT !.next = o, !.om = r.mgr],
                                   cs, r.dispatch)
    /\ UNCHANGED <<mgrVars, recvVars, timedVars, timerVars, waitVars, codecVars, serverVars, lockVars>>

\* The executor runs the task posted by encode.
RunPosted(o) ==
    /\ calls[o].st = "posted"
    /\ calls' = [calls EXCEPT ![o] = [NoCall EXCEPT !.st = "done",
                                                    !.n = calls[o].n + 1]]
    /\ client' = [client EXCEPT
                      !.h = HandlerOf(o, calls[o], "encoding", 0, "none")]
    /\ UNCHANGED <<mgrVars, recvVars, timedVars, timerVars, waitVars, codecVars, serverVars, lockVars>>

\* ServiceClient::cancel / DatagramSender::cancel / Resolver::stop
ClientCancel ==
    /\ LET r == cancelOperation(client.om)
           cs == [o \in DOMAIN calls |->
                     IF calls[o].st \in InFlightStages /\ calls[o].io = "pending"
                     THEN [calls[o] EXCEPT !.canceledIn = calls[o].st]
                     ELSE calls[o]]
       IN /\ calls' = CallsAfter(client.kind, AbortOnMember(client.kind, cs),
                                 <<>>, r.mgr.pendingOperations)
          /\ client' = [client EXCEPT !.om = r.mgr, !.open = FALSE]
    /\ UNCHANGED <<mgrVars, recvVars, timedVars, timerVars, waitVars, codecVars, serverVars, lockVars>>

\* The operation of the stage completes at the operating system.
IoDone(o, code) ==
    /\ calls[o].st \in InFlightStages
    /\ calls[o].io = "pending"
    /\ calls' = [calls EXCEPT ![o].io = code]
    /\ UNCHANGED <<client, mgrVars, recvVars, timedVars, timerVars, waitVars, codecVars, serverVars, lockVars>>

\* The deadline of the call passes while the operation of its stage is
\* outstanding: the timeout handler of the stage closes its closeable.
DeadlineExpires(o) ==
    /\ calls[o].st \in InFlightStages
    /\ calls[o].io = "pending"
    /\ Due(calls[o])
    /\ LET cs == [calls EXCEPT ![o].io = "aborted", ![o].timedOut = calls[o].st]
       IN IF OnMember(client.kind, calls[o].st)
          THEN /\ calls' = AbortOnMember(client.kind, cs)
               /\ client' = [client EXCEPT !.open = FALSE]
          ELSE /\ calls' = cs
               /\ client' = [client EXCEPT !.res = FALSE]
    /\ UNCHANGED <<mgrVars, recvVars, timedVars, timerVars, waitVars, codecVars, serverVars, lockVars>>

\* The timeout handler of an earlier stage, which had passed its test when
\* the completion of that stage cancelled the timer, closes the socket.
LateClose ==
    /\ client.late
    /\ calls' = AbortOnMember(client.kind, calls)
    /\ client' = [client EXCEPT !.open = FALSE, !.late = FALSE]
    /\ UNCHANGED <<mgrVars, recvVars, timedVars, timerVars, waitVars, codecVars, serverVars, lockVars>>

\* The completion of the stage of call o, run by the executor: the handler
\* of the stage either starts the next stage or ends the call: socket.close()
\* (ServiceClient), finishedNotifier.notify(), which dispatches the next
\* call, and the user handler. zero: the frame header announces no payload;
\* dec: the decoder does not throw; race: the timeout handler of this stage
\* had passed its test when the completion cancelled the timer.
StageCompletes(o, zero, dec, race) ==
    /\ calls[o].st \in InFlightStages
    /\ calls[o].io \in {"ok", "error", "aborted"}
    /\ zero => calls[o].st = "readHeader"
    /\ ~dec => calls[o].st \in {"readHeader", "readPayload"}
    /\ race => /\ OnMember(client.kind, calls[o].st)
               /\ calls[o].timedOut = "none"
               /\ Due(calls[o])
               /\ client.open
    /\ LET c == calls[o]
           sc == client.kind = "ServiceClient"
           open == IF OnMember(client.kind, c.st) THEN client.open
                   ELSE client.res
           r == StageStep(client.kind, c.st, open, c.io, zero, dec,
                          client.peer)
           c1 == IF r.next # "none"
                 THEN [ArmNext(c, r.next) EXCEPT
                                !.st = r.next, !.io = "pending",
                                !.n = IF r.finish THEN @ + 1 ELSE @]
                 ELSE [NoCall EXCEPT !.st = "done", !.n = c.n + 1]
           cl1 == [client EXCEPT
                     !.late = @ \/ race,
                     !.h = IF r.finish
                           THEN HandlerOf(o, c, r.err, r.resp, c.st)
                           ELSE @,
                     !.open = SocketAfterStage(client.kind, @, r),
                     !.peer = IF r.finish /\ sc THEN 0
                              ELSE IF c.st = "connect" /\ r.next = "write"
                                   THEN c.host ELSE @]
           f == IF r.finish THEN finishOperation("Queue", client.om)
                ELSE [mgr |-> client.om, dispatch |-> <<>>]
           cs1 == [calls EXCEPT ![o] = c1]
       IN /\ calls' = CallsAfter(client.kind, cs1, f.dispatch,
                                 f.mgr.pendingOperations)
          /\ client' = ClientAfterDispatch([cl1 EXCEPT !.om = f.mgr], cs1,
                                           f.dispatch)
    /\ UNCHANGED <<mgrVars, recvVars, timedVars, timerVars, waitVars, codecVars, serverVars, lockVars>>

\* Time passes while a call is in flight, when the executor has nothing to
\* run and no deadline is due. The age of a call is counted up to MaxTime.
Tick ==
    /\ ~client.late
    /\ \E o \in DOMAIN calls : calls[o].st \in InFlightStages
    /\ \A o \in DOMAIN calls :
          /\ calls[o].st # "posted"
          /\ calls[o].st \in InFlightStages =>
                (calls[o].io = "pending" /\ ~Due(calls[o]))
    /\ calls' = [o \in DOMAIN calls |->
                   IF calls[o].st \in InFlightStages
                   THEN [calls[o] EXCEPT !.age = Older(@), !.run = @ + 1]
                   ELSE IF calls[o].st = "pending"
                        THEN [calls[o] EXCEPT !.age = Older(@)]
                   ELSE calls[o]]
    /\ UNCHANGED <<client, mgrVars, recvVars, timedVars, timerVars, waitVars, codecVars, serverVars, lockVars>>

AsyncCallAny ==
    \E ok \in BOOLEAN : \E T \in Timeouts : \E byHost \in BOOLEAN :
        AsyncCall(ok, T, byHost)
RunPostedAny == \E o \in 1..MaxCalls : RunPosted(o)
IoDoneAny == \E o \in 1..MaxCalls : \E code \in {"ok", "error"} : IoDone(o, code)
DeadlineExpiresAny == \E o \in 1..MaxCalls : DeadlineExpires(o)
StageCompletesAny ==
    \E o \in 1..MaxCalls : \E zero \in BOOLEAN : \E dec \in BOOLEAN :
        \E race \in BOOLEAN : StageCompletes(o, zero, dec, race)

NextClient ==
    \/ AsyncCallAny
    \/ RunPostedAny
    \/ ClientCancel
    \/ IoDoneAny
    \/ DeadlineExpiresAny
    \/ LateClose
    \/ StageCompletesAny
    \/ Tick

SpecClient == InitClient /\ [][NextClient]_vars

\* The steps of the executor, the timers and the clock.
ClientProgress ==
    \/ RunPostedAny
    \/ DeadlineExpiresAny
    \/ LateClose
    \/ StageCompletesAny
    \/ Tick

\* C11: a ServiceClient call in whose stage the deadline expired ends with
\* the user handler receiving aborted, whichever stage that was.
C11_DeadlineAborts ==
    (client.kind = "ServiceClient" /\ client.h.timedOut # "none") =>
        client.h.err = "aborted"

\* C12: the user handler of a call with timeout T is invoked no later than
\* T after the call was made, dispatched at once or queued.
C12_TimeoutBound ==
    (client.kind = "ServiceClient" /\ client.h.fin # "none") =>
        client.h.elapsed <= client.h.T

\* C13: a call whose operation was outstanding when cancel() (stop()) was
\* called ends with the user handler receiving aborted.
C13_CancelAborts ==
    client.h.canceledIn # "none" => client.h.err = "aborted"

\* C14: the user handler of a ServiceClient call is invoked at most once,
\* a dispatched call ends by the one invocation of its handler (a call in
\* flight always has a step of the executor, the timers or the clock ahead
\* of it), and the handler receives an error with a default response, or
\* success with the response read from the connection to the server named
\* by its own call.
C14_CallOnce ==
    client.kind = "ServiceClient" =>
        /\ \A o \in DOMAIN calls :
              /\ calls[o].n <= 1
              /\ (calls[o].st = "done") <=> (calls[o].n = 1)
        /\ (\E o \in DOMAIN calls : calls[o].st \in InFlightStages) =>
              ENABLED ClientProgress
        /\ client.h.fin # "none" =>
              /\ client.h.err # "success" => client.h.resp = 0
              /\ client.h.err = "success" =>
                    /\ client.h.fin \in {"readHeader", "readPayload"}
                    /\ client.h.fin = "readPayload" =>
                          client.h.resp = client.h.host
                    /\ client.h.fin = "readHeader" => client.h.resp = 0

C14_Witness ==
    /\ client.kind = "ServiceClient"
    /\ client.h.op = 2
    /\ client.h.err = "success"
    /\ client.h.fin = "readPayload"
    /\ client.h.resp = 2
    /\ client.h.elapsed > client.h.T
    /\ calls[1].n = 1
    /\ calls[2].n = 1

\* C15: a call whose encoding fails is not submitted: the call leaves the
\* manager, the socket and every other call as they are and invokes no
\* handler; its handler is invoked once, with encoding, by the task posted
\* to the executor.
C15_EncodingFailure ==
    /\ [](/\ \A o \in DOMAIN calls :
                ~calls[o].encOk =>
                    /\ calls[o].st = "posted"
                    /\ calls[o].n = 0
                    /\ o \notin Range(client.om.pendingOperations)
          /\ (client.h.op # 0 /\ ~client.h.encOk) =>
                (client.h.err = "encoding" /\ client.h.fin = "none")
          /\ client.h.err = "encoding" => ~client.h.encOk)
    /\ [][\A o \in DOMAIN calls :
            (calls[o].st = "none" /\ calls'[o].st # "none"
             /\ ~calls'[o].encOk) =>
                /\ client'.om = client.om
                /\ client'.open = client.open
                /\ client'.peer = client.peer
                /\ client'.h = client.h
                /\ calls'[o].st = "posted"
                /\ \A p \in DOMAIN calls \ {o} : calls'[p] = calls[p]]_vars

C15_Witness ==
    /\ client.h.op = 2
    /\ client.h.err = "encoding"
    /\ calls[2].n = 1
    /\ calls[1].st \in InFlightStages
    /\ client.om.running

(***************************************************************************)
(* Part 5: Timer.h: one Timer, its one-shot and periodic timeouts started  *)
(* and cancelled from any thread or from inside a timeout handler, and the *)
(* wait handlers run step by step by the executor. Times are counted from  *)
(* the dispatch of each timeout.                                           *)
(***************************************************************************)
Durations == {1, 2}

TimeoutKinds == {"oneshot", "periodic"}

\* A timeout: its wait handler's position (pc), the code of its wait, its
\* duration d, the time since its dispatch (run), the expiry of the timer
\* (dl, from the dispatch) and the time at which it was set (setAt), the
\* number k of invocations of its handler, and what was called on the Timer
\* since it was started: cancel() (canc), a start (sup).
NoTop == [kind |-> "none", pc |-> "none", code |-> "ok", d |-> 0, run |-> 0,
          dl |-> 0, setAt |-> 0, k |-> 0, canc |-> FALSE, sup |-> "no"]

\* The Timer: its manager, the number of timeouts started, the timeout that
\* ended last, and whether a handler was invoked after its timeout was
\* superseded (again) or cancelled (lateFire), or a wait started after a
\* cancel (lateArm).
NewTimer == [om |-> IdleManager, next |-> 0, ended |-> 0, was |-> NoTop,
             again |-> FALSE, lateFire |-> FALSE, lateArm |-> FALSE]

\* What is kept of a timeout that has ended.
Ended(op) == [NoTop EXCEPT !.kind = op.kind, !.d = op.d, !.run = op.run,
                           !.k = op.k, !.canc = op.canc, !.sup = op.sup]

\* The timeouts that the manager holds as running and whose state is alive.
ActiveT == {"wait", "queued", "checked", "inHandler", "afterHandler",
            "rearming", "drop"}

\* The timeouts that count time: dispatched and not yet ended.
TimedT == ActiveT \cup {"notified"}

\* The Timer after a manager call with result r: startTimeoutOperation /
\* startPeriodicTimeoutOperation of a dispatched timeout set the expiry
\* (expires_from_now, which cancels an outstanding wait) and wait; a record
\* that the manager no longer holds was destroyed.
TAfterCall(ops, r) ==
    LET ops1 == IF r.dispatch # <<>> THEN AbortOutstanding(ops) ELSE ops IN
    [o \in DOMAIN ops |->
        IF o \in Range(r.dispatch)
        THEN [ops1[o] EXCEPT !.pc = "wait", !.code = "ok", !.run = 0,
                             !.dl = ops1[o].d, !.setAt = 0]
        ELSE IF ops1[o].pc = "pending"
                /\ o \notin Range(r.mgr.pendingOperations)
             THEN [NoTop EXCEPT !.pc = "discarded"]
        ELSE ops1[o]]

\* A timeout that is active when startTimeout / startPeriodicTimeout is
\* called is superseded: its wait is outstanding, or is over.
Superseded(op) ==
    IF op.pc \in {"wait", "queued", "checked"} /\ op.sup = "no"
    THEN [op EXCEPT !.sup = "outstanding"]
    ELSE IF op.pc \in {"inHandler", "afterHandler", "rearming", "drop"}
         THEN [op EXCEPT !.sup = "over"]
    ELSE op

\* A timeout that is pending or active when cancel() is called.
Cancelled(op) ==
    IF op.pc \in ActiveT \cup {"pending"} THEN [op EXCEPT !.canc = TRUE]
    ELSE op

\* Timer::startTimeout / startPeriodicTimeout on the Timer t with timeouts
\* ops: operationManager.startOperation, with Timer::cancelOperation
\* (timer.cancel()) as the canceling operation.
ApiStart(t, ops, kind, d) ==
    LET o == t.next + 1
        r == startOperation("Replacer", t.om, o)
        ops1 == [p \in DOMAIN ops |-> Superseded(ops[p])]
        ops2 == IF r.cancelings > 0 THEN AbortOutstanding(ops1) ELSE ops1
        ops3 == [ops2 EXCEPT ![o] = [NoTop EXCEPT !.kind = kind, !.d = d,
                                                  !.pc = "pending"]]
    IN [timer |-> [t EXCEPT !.next = o, !.om = r.mgr],
        tops |-> TAfterCall(ops3, r)]

\* Timer::cancel: operationManager.cancelOperation()
ApiCancel(t, ops) ==
    LET r == cancelOperation(t.om)
        ops1 == [p \in DOMAIN ops |-> Cancelled(ops[p])]
    IN [timer |-> [t EXCEPT !.om = r.mgr],
        tops |-> TAfterCall(AbortOutstanding(ops1), r)]

\* What a timeout handler calls on its Timer.
HandlerCalls == {"nothing", "cancel", "startTimeout", "startPeriodicTimeout"}

ApiCall(t, ops, call, d) ==
    IF call = "cancel" THEN ApiCancel(t, ops)
    ELSE IF call = "startTimeout" THEN ApiStart(t, ops, "oneshot", d)
    ELSE IF call = "startPeriodicTimeout" THEN ApiStart(t, ops, "periodic", d)
    ELSE [timer |-> t, tops |-> ops]

\* Mutant: the next expiry is counted from the current time.
NextExpiry_FromNow(dl, run, d) == run + d

\* nextPeriod: timer.expires_at(timer.expires_at() + state->duration)
NextExpiry(dl, run, d) == dl + d

InitTimer ==
    /\ timer = NewTimer
    /\ tops = [o \in 1..MaxCalls |-> NoTop]
    \* the variables of the other parts are not used
    /\ policy = "Queue"
    /\ mgr = IdleManager
    /\ nextOp = 0
    /\ ncancel = 0
    /\ nmoves = 0
    /\ notifiers = <<>>
    /\ dispatched = <<>>
    /\ finishCalls = <<>>
    /\ replaced = {}
    /\ dropped = {}
    /\ cancelStamp = 0
    /\ last = NoLast
    /\ component = "Receiver"
    /\ om = IdleManager
    /\ isOpen = FALSE
    /\ rops = <<>>
    /\ rnext = 0
    /\ rcancels = 0
    /\ handled = <<>>
    /\ canceledOps = {}
    /\ late = {}
    /\ execThreads = 1
    /\ handle = FALSE
    /\ tm = IdleManager
    /\ twait = "none"
    /\ tpc = "idle"
    /\ io = "none"
    /\ cpc = "idle"
    /\ result = "none"
    /\ seenOpen = FALSE
    /\ handlerCalls = 0
    /\ completionRan = FALSE
    /\ closeFirst = FALSE
    /\ closedAfterCompletion = FALSE
    /\ client = <<>>
    /\ calls = <<>>
    /\ waiter = <<>>
    /\ frame = <<>>
    /\ server = <<>>
    /\ locks = <<>>

NotTimer == <<mgrVars, recvVars, timedVars, clientVars, waitVars, codecVars, serverVars, lockVars>>

\* startTimeout / startPeriodicTimeout called from a thread.
StartTimeout(kind, d) ==
    /\ timer.next < MaxCalls
    /\ LET r == ApiStart(timer, tops, kind, d)
       IN timer' = r.timer /\ tops' = r.tops
    /\ UNCHANGED NotTimer

\* cancel() called from a thread.
CancelTimer ==
    /\ LET r == ApiCancel(timer, tops)
       IN timer' = r.timer /\ tops' = r.tops
    /\ UNCHANGED NotTimer

\* The expiry of the timer passes: the wait completes with success.
WaitExpires(o) ==
    /\ tops[o].pc = "wait"
    /\ tops[o].run >= tops[o].dl
    /\ tops' = [tops EXCEPT ![o].pc = "queued", ![o].code = "ok"]
    /\ UNCHANGED <<timer, NotTimer>>

\* The wait handler starts: if (error || operationManager.isCanceled()) return;
WaitHandlerChecks(o) ==
    /\ tops[o].pc = "queued"
    /\ tops' = [tops EXCEPT ![o].pc =
                   IF DropsCompletion("Timer", tops[o].code, timer.om.canceled)
                   THEN "drop" ELSE "checked"]
    /\ UNCHANGED <<timer, NotTimer>>

\* The wait handler returned at a test: the state is released and the
\* destructor of its notifier calls finishOperation.
WaitHandlerReturns(o) ==
    /\ tops[o].pc = "drop"
    /\ LET r == finishOperation("Replacer", timer.om)
       IN /\ timer' = [timer EXCEPT !.om = r.mgr, !.ended = o,
                                     !.was = Ended(tops[o])]
          /\ tops' = TAfterCall([tops EXCEPT ![o] =
                                    [NoTop EXCEPT !.pc = "done"]], r)
    /\ UNCHANGED NotTimer

\* One-shot: state->notifier.notify()
OneShotNotifies(o) ==
    /\ tops[o].kind = "oneshot"
    /\ tops[o].pc = "checked"
    /\ LET r == finishOperation("Replacer", timer.om)
       IN /\ timer' = [timer EXCEPT !.om = r.mgr]
          /\ tops' = TAfterCall([tops EXCEPT ![o].pc = "notified"], r)
    /\ UNCHANGED NotTimer

\* state->handler(): the handler of a one-shot timeout after its notify, of
\* a periodic timeout after its test. The handler may call the Timer. A
\* one-shot timeout has ended with its handler.
TimeoutHandler(o, call, d) ==
    /\ \/ tops[o].kind = "oneshot" /\ tops[o].pc = "notified"
       \/ tops[o].kind = "periodic" /\ tops[o].pc = "checked"
    /\ call \in {"startTimeout", "startPeriodicTimeout"} =>
           timer.next < MaxCalls
    /\ LET op == tops[o]
           periodic == op.kind = "periodic"
           fired == [op EXCEPT !.k = @ + 1]
           inside == IF periodic
                     THEN [fired EXCEPT
                             !.sup = IF @ = "outstanding" THEN "over" ELSE @,
                             !.pc = "inHandler"]
                     ELSE [NoTop EXCEPT !.pc = "done"]
           t1 == [timer EXCEPT
                    !.again = @ \/ (op.sup = "over"),
                    !.lateFire = @ \/ (periodic /\ op.canc),
                    !.ended = IF periodic THEN @ ELSE o,
                    !.was = IF periodic THEN @ ELSE Ended(fired)]
           r == ApiCall(t1, [tops EXCEPT ![o] = inside], call, d)
       IN /\ timer' = r.timer
          /\ tops' = [r.tops EXCEPT ![o].pc =
                         IF periodic THEN "afterHandler" ELSE @]
    /\ UNCHANGED NotTimer

\* nextPeriod: if (operationManager.isCanceled()) return;
NextPeriodChecks(o) ==
    /\ tops[o].pc = "afterHandler"
    /\ tops' = [tops EXCEPT ![o].pc =
                   IF timer.om.canceled THEN "drop" ELSE "rearming"]
    /\ UNCHANGED <<timer, NotTimer>>

\* nextPeriod: timer.expires_at(...) and timer.async_wait(...)
NextPeriodWaits(o) ==
    /\ tops[o].pc = "rearming"
    /\ tops' = [AbortOutstanding(tops) EXCEPT
                   ![o].pc = "wait",
                   ![o].code = "ok",
                   ![o].dl = NextExpiry(tops[o].dl, tops[o].run, tops[o].d),
                   ![o].setAt = tops[o].run]
    /\ timer' = [timer EXCEPT !.lateArm = @ \/ tops[o].canc]
    /\ UNCHANGED NotTimer

\* Time passes for the timeouts that were dispatched and have not ended.
TimerTick ==
    /\ \E o \in DOMAIN tops : tops[o].pc \in TimedT
    /\ \A o \in DOMAIN tops : tops[o].pc \in TimedT => tops[o].run < MaxTime
    /\ tops' = [o \in DOMAIN tops |->
                  IF tops[o].pc \in TimedT
                  THEN [tops[o] EXCEPT !.run = @ + 1] ELSE tops[o]]
    /\ UNCHANGED <<timer, NotTimer>>

StartTimeoutAny ==
    \E kind \in TimeoutKinds : \E d \in Durations : StartTimeout(kind, d)
WaitExpiresAny == \E o \in 1..MaxCalls : WaitExpires(o)
WaitHandlerChecksAny == \E o \in 1..MaxCalls : WaitHandlerChecks(o)
WaitHandlerReturnsAny == \E o \in 1..MaxCalls : WaitHandlerReturns(o)
OneShotNotifiesAny == \E o \in 1..MaxCalls : OneShotNotifies(o)
TimeoutHandlerAny ==
    \E o \in 1..MaxCalls : \E call \in HandlerCalls : \E d \in Durations :
        TimeoutHandler(o, call, d)
NextPeriodChecksAny == \E o \in 1..MaxCalls : NextPeriodChecks(o)
NextPeriodWaitsAny == \E o \in 1..MaxCalls : NextPeriodWaits(o)

NextTimer ==
    \/ StartTimeoutAny
    \/ CancelTimer
    \/ WaitExpiresAny
    \/ WaitHandlerChecksAny
    \/ WaitHandlerReturnsAny
    \/ OneShotNotifiesAny
    \/ TimeoutHandlerAny
    \/ NextPeriodChecksAny
    \/ NextPeriodWaitsAny
    \/ TimerTick

SpecTimer == InitTimer /\ [][NextTimer]_vars

\* C16: a one-shot timeout that was not cancelled or superseded after its
\* start, and has ended, has invoked its handler exactly once, after its
\* duration, whatever was called on the Timer before its start.
C16_OneShotFires ==
    /\ \A o \in DOMAIN tops : tops[o].kind = "oneshot" => tops[o].k = 0
    /\ (timer.ended # 0 /\ timer.was.kind = "oneshot") =>
          /\ timer.was.k <= 1
          /\ timer.was.k = 1 => timer.was.run >= timer.was.d
          /\ (~timer.was.canc /\ timer.was.sup = "no") => timer.was.k = 1

\* C17: a timeout that is active when startTimeout / startPeriodicTimeout
\* is called does not invoke its handler again, nor wait again, once its
\* outstanding wait has completed.
C17_StartReplaces ==
    /\ ~timer.again
    /\ \A o \in DOMAIN tops : ~(tops[o].sup = "over" /\ tops[o].pc = "wait")

\* C18: the expiry of the k-th wait of a periodic timeout is k * d after its
\* dispatch, however late its handlers were run.
C18_NoDrift ==
    \A o \in DOMAIN tops :
        tops[o].kind = "periodic" =>
            /\ tops[o].pc \in {"wait", "queued", "checked"} =>
                  tops[o].dl = (tops[o].k + 1) * tops[o].d
            /\ tops[o].pc \in {"afterHandler", "rearming"} =>
                  tops[o].dl = tops[o].k * tops[o].d

C18_Witness ==
    \E o \in DOMAIN tops :
        /\ tops[o].kind = "periodic"
        /\ tops[o].pc = "wait"
        /\ tops[o].k >= 1
        /\ tops[o].setAt > tops[o].k * tops[o].d

\* C19: after cancel() on a periodic timeout its handler is not invoked and
\* no wait is started, and when it has ended the manager is not running.
C19_CancelStopsPeriodic ==
    /\ ~timer.lateFire
    /\ ~timer.lateArm
    /\ (timer.ended # 0 /\ timer.was.kind = "periodic" /\ timer.was.canc
        /\ timer.next = timer.ended) => ~timer.om.running

(***************************************************************************)
(* Part 6: Wait.h, Wait.cpp: one Waiter with two Waitables, one thread in  *)
(* Waiter::await (an executor thread, which runs handlers with run_one, or *)
(* another thread, which waits on the condition variable), one more thread *)
(* that runs wrapped handlers and sets the Waitables, the handlers queued  *)
(* in the context, and the stop of the context.                            *)
(***************************************************************************)
Waitables == {1, 2}

\* await(w1), await(w1 && w2), await(w1 || w2)
Expressions == {"w1", "and", "or"}

\* Mutant: operator&& built as operator||.
operatorAnd_Or(lhs, rhs) == lhs \/ rhs

\* operator&&(const Waitable &, const Waitable &): lhs.ready && rhs.ready
operatorAnd(lhs, rhs) == lhs /\ rhs

\* operator||(const Waitable &, const Waitable &): lhs.ready || rhs.ready
operatorOr(lhs, rhs) == lhs \/ rhs

\* The value of the WaitExpression e on the ready flags.
expression(e, ready) ==
    CASE e = "w1" -> ready[1]
      [] e = "and" -> operatorAnd(ready[1], ready[2])
      [] e = "or" -> operatorOr(ready[1], ready[2])

\* Mutant: the wrapped handler sets ready before it runs the callback.
operatorCall_ReadyFirst == <<"setReady", "callback">>

\* Waitable::operator(): the statements of the handler it returns,
\* handler(args...); this->setReady();
operatorCall == <<"callback", "setReady">>

\* The statements of a call made by a thread or a handler.
Statements(op) == IF op = "wrapped" THEN operatorCall ELSE <<op>>

\* What is recorded when await returns: the statement that left the loop,
\* and whether await waited or ran a handler.
NoReturn == [how |-> "none", waited |-> FALSE]

\* What a thread or a handler calls: a handler wrapped by a Waitable,
\* setReady, setWaiting; a handler can also stop the context or do nothing.
SetterCalls == {"wrapped", "setReady", "setWaiting"}
Handlers == SetterCalls \cup {"nothing", "stop"}

\* The Waiter, its Waitables' ready flags (by: the call that set the flag),
\* the Waitables on which setReady was ever called (set), its mutex, the
\* context's stopped flag and whether it has queued handlers, the thread in
\* await (pc, expr, exec: running_in_this_thread) and the thread that sets
\* the Waitables (spc, sw, todo: its statements left, wrapped, cb: its
\* callback has returned).
NewWaiter == [ready |-> [w \in Waitables |-> FALSE],
              by |-> [w \in Waitables |-> "none"], set |-> {},
              mutex |-> "free", stopped |-> FALSE, queued |-> FALSE,
              pc |-> "idle", expr |-> "w1", exec |-> FALSE, waited |-> FALSE,
              ret |-> NoReturn,
              spc |-> "idle", sw |-> 1, todo |-> <<>>, wrapped |-> FALSE,
              cb |-> FALSE]

InitWait ==
    /\ waiter = NewWaiter
    \* the variables of the other parts are not used
    /\ policy = "Queue"
    /\ mgr = IdleManager
    /\ nextOp = 0
    /\ ncancel = 0
    /\ nmoves = 0
    /\ notifiers = <<>>
    /\ dispatched = <<>>
    /\ finishCalls = <<>>
    /\ replaced = {}
    /\ dropped = {}
    /\ cancelStamp = 0
    /\ last = NoLast
    /\ component = "Receiver"
    /\ om = IdleManager
    /\ isOpen = FALSE
    /\ rops = <<>>
    /\ rnext = 0
    /\ rcancels = 0
    /\ handled = <<>>
    /\ canceledOps = {}
    /\ late = {}
    /\ execThreads = 1
    /\ handle = FALSE
    /\ tm = IdleManager
    /\ twait = "none"
    /\ tpc = "idle"
    /\ io = "none"
    /\ cpc = "idle"
    /\ result = "none"
    /\ seenOpen = FALSE
    /\ handlerCalls = 0
    /\ completionRan = FALSE
    /\ closeFirst = FALSE
    /\ closedAfterCompletion = FALSE
    /\ client = <<>>
    /\ calls = <<>>
    /\ timer = <<>>
    /\ tops = <<>>
    /\ frame = <<>>
    /\ server = <<>>
    /\ locks = <<>>

NotWait ==
    <<mgrVars, recvVars, timedVars, clientVars, timerVars, codecVars,
      serverVars, lockVars>>

\* await returns: the loop was left by the statement how.
Returned(wt, how) ==
    [wt EXCEPT !.pc = "returned",
               !.ret = [how |-> how, waited |-> wt.waited]]

\* Waitable::setReady / setWaiting of w, the part under the Waiter's mutex;
\* origin tells the call that made it.
SetFlag(wt, w, op, origin) ==
    [wt EXCEPT !.ready[w] = (op = "setReady"),
               !.by[w] = IF op = "setReady" THEN origin ELSE "none",
               !.set = IF op = "setReady" THEN @ \cup {w} ELSE @]

\* Who sets the flag: a direct call, or the wrapped handler after or before
\* its callback has returned.
Origin(wrapped, cb) ==
    IF ~wrapped THEN "direct"
    ELSE IF cb THEN "afterCallback" ELSE "beforeCallback"

\* The statements stmts run to the end by one thread with the mutex free.
RECURSIVE RunAll(_, _, _, _, _)
RunAll(wt, w, stmts, wrapped, cb) ==
    IF stmts = <<>> THEN wt
    ELSE IF Head(stmts) = "callback"
         THEN RunAll(wt, w, Tail(stmts), wrapped, TRUE)
    ELSE RunAll(SetFlag(wt, w, Head(stmts), Origin(wrapped, cb)), w,
                Tail(stmts), wrapped, cb)

\* A thread calls waiter.await(expression).
Await(e, x) ==
    /\ waiter.pc \in {"idle", "returned"}
    /\ waiter' = [waiter EXCEPT !.pc = "test", !.expr = e, !.exec = x,
                                !.waited = FALSE, !.ret = NoReturn]
    /\ UNCHANGED NotWait

\* On an executor thread: lock_guard, if (expression()) break.
ExecTests ==
    /\ waiter.pc = "test"
    /\ waiter.exec
    /\ waiter.mutex = "free"
    /\ waiter' = IF expression(waiter.expr, waiter.ready)
                 THEN Returned(waiter, "expression")
                 ELSE [waiter EXCEPT !.pc = "stoppedTest"]
    /\ UNCHANGED NotWait

\* On an executor thread: if (context.stopped()) break.
ExecStoppedTest ==
    /\ waiter.pc = "stoppedTest"
    /\ waiter' = IF waiter.stopped
                 THEN Returned(waiter, "stopped")
                 ELSE [waiter EXCEPT !.pc = "runOne"]
    /\ UNCHANGED NotWait

\* On an executor thread: context.run_one() waits until a handler is
\* queued or the context is stopped, and runs one handler h on this thread
\* (more is the queue it leaves); it runs none once the context is stopped.
RunOne(h, w, more) ==
    /\ waiter.pc = "runOne"
    /\ waiter.stopped \/ waiter.queued
    /\ waiter.stopped => h = "nothing" /\ w = 1 /\ more = waiter.queued
    /\ h \notin SetterCalls => w = 1
    /\ h \in SetterCalls /\ ~waiter.stopped => waiter.mutex = "free"
    /\ LET taken == [waiter EXCEPT !.queued = more]
           ran == IF waiter.stopped THEN waiter
                  ELSE IF h \in SetterCalls
                       THEN RunAll(taken, w, Statements(h), h = "wrapped",
                                   FALSE)
                  ELSE IF h = "stop" THEN [taken EXCEPT !.stopped = TRUE]
                  ELSE taken
       IN waiter' = [ran EXCEPT !.pc = "test", !.waited = TRUE]
    /\ UNCHANGED NotWait

\* On another thread: unique_lock lock{mutex}, and the lock taken again
\* when cond.wait wakes up.
ThreadLocks ==
    /\ \/ waiter.pc = "test" /\ ~waiter.exec
       \/ waiter.pc = "woken"
    /\ waiter.mutex = "free"
    /\ waiter' = [waiter EXCEPT !.pc = "locked", !.mutex = "await"]
    /\ UNCHANGED NotWait

\* On another thread: while (!expression() && !context.stopped())
\* cond.wait(lock), which releases the mutex; leaving the loop returns and
\* releases the mutex.
ThreadTests ==
    /\ waiter.pc = "locked"
    /\ LET wt == [waiter EXCEPT !.mutex = "free"]
       IN waiter' = IF expression(waiter.expr, waiter.ready)
                    THEN Returned(wt, "expression")
                    ELSE IF waiter.stopped THEN Returned(wt, "stopped")
                    ELSE [wt EXCEPT !.pc = "waiting", !.waited = TRUE]
    /\ UNCHANGED NotWait

\* cond.wait wakes up without a notification.
SpuriousWakeup ==
    /\ waiter.pc = "waiting"
    /\ waiter' = [waiter EXCEPT !.pc = "woken"]
    /\ UNCHANGED NotWait

\* A handler is queued in the context.
PostWork ==
    /\ ~waiter.queued
    /\ waiter' = [waiter EXCEPT !.queued = TRUE]
    /\ UNCHANGED NotWait

\* The setting thread goes on to its next statement.
SetterNext(wt) ==
    IF Tail(wt.todo) = <<>>
    THEN [wt EXCEPT !.todo = <<>>, !.spc = "idle", !.sw = 1,
                    !.wrapped = FALSE, !.cb = FALSE]
    ELSE [wt EXCEPT !.todo = Tail(@), !.spc = "run"]

\* The setting thread starts a call on the Waitable w: as another executor
\* thread that takes a queued handler (q; more is the queue it leaves), or
\* as any other thread.
SetterStarts(w, op, q, more) ==
    /\ waiter.spc = "idle"
    /\ q => waiter.queued /\ ~waiter.stopped
    /\ ~q => more = waiter.queued
    /\ waiter' = [waiter EXCEPT !.spc = "run", !.sw = w,
                                !.todo = Statements(op),
                                !.wrapped = (op = "wrapped"), !.cb = FALSE,
                                !.queued = more]
    /\ UNCHANGED NotWait

\* The wrapped handler: handler(args...) runs and returns.
SetterCallback ==
    /\ waiter.spc = "run"
    /\ Head(waiter.todo) = "callback"
    /\ waiter' = [SetterNext(waiter) EXCEPT !.cb = TRUE]
    /\ UNCHANGED NotWait

\* setReady / setWaiting: lock_guard.
SetterLocks ==
    /\ waiter.spc = "run"
    /\ Head(waiter.todo) \in {"setReady", "setWaiting"}
    /\ waiter.mutex = "free"
    /\ waiter' = [waiter EXCEPT !.spc = "locked", !.mutex = "setter"]
    /\ UNCHANGED NotWait

\* ready = true / ready = false, and the mutex released.
SetterWrites ==
    /\ waiter.spc = "locked"
    /\ LET op == Head(waiter.todo)
           wt == [SetFlag(waiter, waiter.sw, op,
                          Origin(waiter.wrapped, waiter.cb))
                     EXCEPT !.mutex = "free"]
       IN waiter' = IF op = "setReady" THEN [wt EXCEPT !.spc = "notify"]
                    ELSE SetterNext(wt)
    /\ UNCHANGED NotWait

\* Mutant: setReady without notify_all.
SetterNotifies_None ==
    /\ waiter.spc = "notify"
    /\ waiter' = SetterNext(waiter)
    /\ UNCHANGED NotWait

\* setReady: waiter.cond.notify_all()
SetterNotifies ==
    /\ waiter.spc = "notify"
    /\ waiter' = [SetterNext(waiter) EXCEPT
                      !.pc = IF @ = "waiting" THEN "woken" ELSE @]
    /\ UNCHANGED NotWait

\* Worker::stop, WorkerPool::stop: context.stop()
ContextStop ==
    /\ ~waiter.stopped
    /\ waiter' = [waiter EXCEPT !.stopped = TRUE]
    /\ UNCHANGED NotWait

AwaitAny == \E e \in Expressions, x \in BOOLEAN : Await(e, x)
RunOneAny ==
    \E h \in Handlers, w \in Waitables, more \in BOOLEAN : RunOne(h, w, more)
SetterStartsAny ==
    \E w \in Waitables, op \in SetterCalls, q \in BOOLEAN, more \in BOOLEAN :
        SetterStarts(w, op, q, more)

NextWait ==
    \/ AwaitAny
    \/ ExecTests
    \/ ExecStoppedTest
    \/ RunOneAny
    \/ ThreadLocks
    \/ ThreadTests
    \/ SpuriousWakeup
    \/ PostWork
    \/ SetterStartsAny
    \/ SetterCallback
    \/ SetterLocks
    \/ SetterWrites
    \/ SetterNotifies
    \/ ContextStop

SpecWait == InitWait /\ [][NextWait]_vars

\* The step in which await returns.
AwaitReturning == waiter.pc # "returned" /\ waiter'.pc = "returned"

\* C20: when await(expr) returns, expr was true at the evaluation under the
\* mutex that lets it return, or the context is stopped; unless it returns
\* for the stop, await(w1 && w2) returns with both Waitables ready and
\* after setReady on both, await(w1 || w2) with at least one ready and
\* after setReady on at least one.
C20_AwaitReturns ==
    [][AwaitReturning =>
        LET how == waiter'.ret.how
            ready == waiter'.ready
            set == waiter'.set
        IN /\ how \in {"expression", "stopped"}
           /\ how = "stopped" => waiter'.stopped
           /\ how = "expression" =>
                 /\ waiter.expr = "w1" => ready[1] /\ 1 \in set
                 /\ waiter.expr = "and" =>
                       ready[1] /\ ready[2] /\ set = {1, 2}
                 /\ waiter.expr = "or" => (ready[1] \/ ready[2]) /\ set # {}
      ]_vars

C20_Witness ==
    /\ waiter.pc = "returned"
    /\ waiter.expr = "and"
    /\ ~waiter.exec
    /\ waiter.ret.how = "expression"
    /\ waiter.ret.waited
    /\ waiter.ready[1] /\ waiter.ready[2]
    /\ ~waiter.stopped

\* The threads go on: a thread that can take a step takes it, and a thread
\* that asks for the mutex gets it when the mutex is released again and
\* again. Spurious wake-ups, new calls and the stop need not happen.
FairSpecWait ==
    /\ SpecWait
    /\ WF_vars(ExecStoppedTest)
    /\ WF_vars(RunOneAny)
    /\ WF_vars(ThreadTests)
    /\ WF_vars(SetterCallback)
    /\ WF_vars(SetterWrites)
    /\ WF_vars(SetterNotifies)
    /\ SF_vars(ExecTests)
    /\ SF_vars(ThreadLocks)
    /\ SF_vars(SetterLocks)

\* The thread is in await.
InAwait == waiter.pc \notin {"idle", "returned"}

\* C21: a thread that is not an executor thread never sits in cond.wait
\* with its expression true and no notify_all to come, and an await whose
\* expression is true returns unless the expression becomes false again.
C21_NoLostWakeup ==
    /\ [](waiter.pc = "waiting" /\ expression(waiter.expr, waiter.ready)
             => waiter.spc = "notify")
    /\ (InAwait /\ ~waiter.exec /\ expression(waiter.expr, waiter.ready))
          ~> (waiter.pc = "returned"
              \/ ~expression(waiter.expr, waiter.ready))

C21_Witness ==
    /\ waiter.pc = "waiting"
    /\ waiter.expr = "w1"
    /\ waiter.ready[1]
    /\ waiter.spc = "notify"
    /\ ~waiter.stopped

\* C22: once the context is stopped, a thread in await returns unless its
\* expression becomes true.
C22_StopBreaksWait ==
    (InAwait /\ waiter.stopped)
        ~> (waiter.pc = "returned" \/ expression(waiter.expr, waiter.ready))

\* A step of the thread in await on an executor thread.
ExecStep == ExecTests \/ ExecStoppedTest \/ RunOneAny

\* C23: await on an executor thread never locks for, waits on or wakes up
\* from the condition variable, and while its expression is true and no
\* other thread holds the mutex it can take a step that leads to its
\* return.
C23_ExecNeverBlocks ==
    (InAwait /\ waiter.exec) =>
        /\ waiter.pc \notin {"locked", "waiting", "woken"}
        /\ (expression(waiter.expr, waiter.ready) /\ waiter.mutex = "free")
              => ENABLED ExecStep

\* C24: a ready flag that is set was set by setReady, and by the wrapped
\* handler only after its callback returned; when await(w1) returns for its
\* expression the flag is set in that way; setWaiting leaves the flag not
\* set, and a flag that is not set becomes set only by a setReady.
C24_ReadyAfterCallback ==
    /\ [](\A w \in Waitables :
             /\ waiter.ready[w] <=> waiter.by[w] # "none"
             /\ waiter.by[w] # "beforeCallback")
    /\ [][/\ (AwaitReturning /\ waiter.expr = "w1"
                 /\ waiter'.ret.how = "expression")
                => waiter'.by[1] \in {"direct", "afterCallback"}
          /\ \A w \in Waitables :
                (waiter.ready[w] # waiter'.ready[w]) =>
                    \/ waiter.todo # <<>> /\ waiter.spc = "locked"
                          /\ waiter.sw = w
                          /\ waiter'.ready[w] = (Head(waiter.todo) = "setReady")
                    \/ waiter.pc = "runOne" /\ waiter'.pc = "test"
         ]_vars

C24_Witness ==
    /\ waiter.pc = "returned"
    /\ waiter.expr = "w1"
    /\ waiter.ret.how = "expression"
    /\ waiter.ret.waited
    /\ waiter.by[1] = "afterCallback"
    /\ waiter.spc = "notify"

(***************************************************************************)
(* Part 7: Frame.h, Utils.h, Stream.h, Socket.h: one frame written to a    *)
(* stream or sent as a datagram, or any bytes received, and read back by   *)
(* stream::asyncRead or socket::asyncReceiveFrom. Unsigned numbers of 32   *)
(* bits and more are pairs <<high, low>> of the bits above and of the low  *)
(* 16 bits, so that 32-bit arithmetic is exact.                            *)
(***************************************************************************)
MaxLen == 2

MaxSize == 2

\* Frame::HEADER_SIZE
HEADER_SIZE == 4

\* The values of std::uint8_t in frames, and the same bit patterns as char.
Bytes == {0, 1, 255}
Chars == {0, 1, -1}

\* The width of std::size_t in the build.
SizeWidths == {32, 64}

Half == 65536

Num(n) == <<n \div Half, n % Half>>

Plus(a, b) == <<a[1] + b[1] + ((a[2] + b[2]) \div Half), (a[2] + b[2]) % Half>>

Less(a, b) == a[1] < b[1] \/ (a[1] = b[1] /\ a[2] < b[2])

\* The conversion of a to an unsigned type of the given width; the numbers
\* of the model stay below 2^48.
Cast(a, bits) == IF bits = 32 THEN <<a[1] % Half, a[2]>> ELSE a

\* ((Int) byte) << bitsToShift, for bitsToShift in {24, 16, 8, 0}
ShiftLeft(byte, bitsToShift) ==
    CASE bitsToShift = 24 -> <<byte * 256, 0>>
      [] bitsToShift = 16 -> <<byte, 0>>
      [] bitsToShift = 8 -> <<0, byte * 256>>
      [] bitsToShift = 0 -> <<0, byte>>

\* (std::uint8_t) ((src >> bitsToShift) & 0x000000ff)
ShiftRight(src, bitsToShift) ==
    CASE bitsToShift = 24 -> (src[1] \div 256) % 256
      [] bitsToShift = 16 -> src[1] % 256
      [] bitsToShift = 8 -> src[2] \div 256
      [] bitsToShift = 0 -> src[2] % 256

\* (const std::uint8_t *) of a char, and a std::uint8_t stored as char.
AsUint8(c) == IF c < 0 THEN c + 256 ELSE c
AsChar(b) == IF b > 127 THEN b - 256 ELSE b

\* utils::toBigEndian<4>(dest, src)
toBigEndian(src) ==
    [i \in 1..HEADER_SIZE |-> ShiftRight(src, HEADER_SIZE * 8 - 8 * i)]

\* The loop of utils::fromBigEndian<4, std::uint32_t> from byte i on.
RECURSIVE FromLoop(_, _, _)
FromLoop(bytes, i, res) ==
    IF i > HEADER_SIZE THEN res
    ELSE FromLoop(bytes, i + 1,
                  Cast(Plus(res,
                            ShiftLeft(bytes[i], HEADER_SIZE * 8 - 8 * i)), 32))

\* Mutant: the bytes are read in little-endian order.
fromBigEndian_LittleEndian(bytes) ==
    FromLoop([i \in 1..HEADER_SIZE |-> bytes[HEADER_SIZE + 1 - i]], 1, Num(0))

\* utils::fromBigEndian<4, std::uint32_t>(bytes)
fromBigEndian(bytes) == FromLoop(bytes, 1, Num(0))

\* The sequences over S of length up to n.
SeqUpTo(S, n) == UNION {[1..k -> S] : k \in 0..n}

Min2(a, b) == IF a < b THEN a ELSE b

\* The elements from..to of a sequence.
Slice(q, from, to) == [i \in 1..(to - from + 1) |-> q[from + i - 1]]

\* internal::Frame over the chars data: getBuffers() is the header followed
\* by the data, as bytes.
FrameBuffers(data) ==
    LET header == toBigEndian(Cast(Num(Len(data)), 32))
    IN [i \in 1..HEADER_SIZE |-> header[i]]
       \o [i \in 1..Len(data) |-> AsUint8(data[i])]

\* stream::internal / socket::internal numDataBytesFromBuffer: the length in
\* the first four chars of the buffer.
HeaderOf(buf) == fromBigEndian([i \in 1..HEADER_SIZE |-> AsUint8(buf[i])])

\* socket::internal::numDataBytesFromBuffer(buffer, numBytesTransferred,
\* numDataBytes), with std::size_t of the given width.
numDataBytesFromBuffer(buf, numBytesTransferred, bits) ==
    IF numBytesTransferred < 4 THEN [ok |-> FALSE, numDataBytes |-> Num(0)]
    ELSE LET numDataBytes == Cast(HeaderOf(buf), bits)
         IN IF Less(Num(numBytesTransferred),
                    Cast(Plus(Num(4), numDataBytes), bits))
            THEN [ok |-> FALSE, numDataBytes |-> numDataBytes]
            ELSE [ok |-> TRUE, numDataBytes |-> numDataBytes]

\* ConstStreamBuffer / ConstVectorBuffer{buffer, numBytes, offset}: the
\* chars it gives; a view that ends after the buffer gives anything.
View(buf, numBytes, offset) ==
    IF Less(Num(Len(buf)), Plus(Num(offset), numBytes)) THEN "outOfBounds"
    ELSE Slice(buf, offset + 1, offset + numBytes[2])

\* closeable::timedAsyncOperation: the error of a read that ended with code.
ReadError(code) ==
    CASE code = "ok" -> "success"
      [] code = "timeout" -> "aborted"
      [] OTHER -> "failedOperation"

\* boost::asio::async_read with transfer_exactly(want) into a streambuf with
\* room chars left, when the peer has sent avail more bytes: it ends with
\* the bytes wanted, with a full buffer, or with the end of the stream.
AsyncRead(want, room, avail, end) ==
    LET lim == IF Less(Num(room), want) THEN room ELSE want[2]
        n == Min2(lim, avail)
    IN [n |-> n, code |-> IF n = lim THEN "ok" ELSE end,
        completes |-> n = lim \/ end # "open"]

\* streambuf::consume(n)
Consume(buf, n) ==
    IF n >= Len(buf) THEN <<>> ELSE Slice(buf, n + 1, Len(buf))

\* A frame: the reader's kind, size_t width and maxMessageSize (M), the
\* payload written (p, when sent), the bytes on the wire and how the stream
\* ends, the reader's position and buffer, the bytes transferred by the
\* header read (n1) and the payload read (n2), and what the handler got.
NoFrame == [kind |-> "none", bits |-> 64, M |-> 0, sent |-> FALSE, p |-> <<>>,
            wire |-> <<>>, end |-> "open", stage |-> "init", buf |-> <<>>,
            n1 |-> 0, n2 |-> 0, err |-> "none", view |-> <<>>,
            num |-> Num(0), back |-> Num(0)]

\* The 32-bit numbers converted.
Numbers == {<<hi, lo>> : hi \in {0, 1, 255, 256, 65535},
                         lo \in {0, 1, 255, 256, 65535}}

InitFrame ==
    /\ frame \in
          {[NoFrame EXCEPT !.kind = k, !.bits = b, !.M = m] :
               k \in {"stream", "datagram"}, b \in SizeWidths,
               m \in 0..MaxSize}
          \cup {[NoFrame EXCEPT !.kind = "number", !.num = n] : n \in Numbers}
    /\ server = <<>>
    /\ locks = <<>>
    \* the variables of the other parts are not used
    /\ policy = "Queue"
    /\ mgr = IdleManager
    /\ nextOp = 0
    /\ ncancel = 0
    /\ nmoves = 0
    /\ notifiers = <<>>
    /\ dispatched = <<>>
    /\ finishCalls = <<>>
    /\ replaced = {}
    /\ dropped = {}
    /\ cancelStamp = 0
    /\ last = NoLast
    /\ component = "Receiver"
    /\ om = IdleManager
    /\ isOpen = FALSE
    /\ rops = <<>>
    /\ rnext = 0
    /\ rcancels = 0
    /\ handled = <<>>
    /\ canceledOps = {}
    /\ late = {}
    /\ execThreads = 1
    /\ handle = FALSE
    /\ tm = IdleManager
    /\ twait = "none"
    /\ tpc = "idle"
    /\ io = "none"
    /\ cpc = "idle"
    /\ result = "none"
    /\ seenOpen = FALSE
    /\ handlerCalls = 0
    /\ completionRan = FALSE
    /\ closeFirst = FALSE
    /\ closedAfterCompletion = FALSE
    /\ client = <<>>
    /\ calls = <<>>
    /\ timer = <<>>
    /\ tops = <<>>
    /\ waiter = <<>>

NotFrame ==
    <<mgrVars, recvVars, timedVars, clientVars, timerVars, waitVars,
      serverVars, lockVars>>

\* A 32-bit number is converted to big endian and back.
Convert ==
    /\ frame.kind = "number"
    /\ frame.stage = "init"
    /\ frame' = [frame EXCEPT !.stage = "done",
                              !.back = fromBigEndian(toBigEndian(frame.num))]
    /\ UNCHANGED NotFrame

\* stream::asyncWrite / socket::asyncSendTo of the payload p by the peer:
\* the whole frame is on the wire.
SendFrame(p) ==
    /\ frame.kind \in {"stream", "datagram"}
    /\ frame.stage = "init"
    /\ frame' = [frame EXCEPT !.stage = "wire", !.sent = TRUE, !.p = p,
                              !.wire = FrameBuffers(p)]
    /\ UNCHANGED NotFrame

\* The peer sends any bytes w, and the stream ends as end tells: it stays
\* open, the peer closes it, or the deadline of the read expires.
SendBytes(w, end) ==
    /\ frame.kind \in {"stream", "datagram"}
    /\ frame.stage = "init"
    /\ frame.kind = "datagram" => end = "open"
    /\ frame' = [frame EXCEPT !.stage = "wire", !.wire = w, !.end = end]
    /\ UNCHANGED NotFrame

\* stream::asyncRead: the handler of the header read.
ReadHeader ==
    /\ frame.kind = "stream"
    /\ frame.stage = "wire"
    /\ LET r == AsyncRead(Num(HEADER_SIZE), frame.M + HEADER_SIZE,
                          Len(frame.wire), frame.end)
           buf == [i \in 1..r.n |-> AsChar(frame.wire[i])]
           error == ReadError(r.code)
           f == [frame EXCEPT !.n1 = r.n]
       IN /\ r.completes
          /\ frame' =
               IF error # "success"
               THEN [f EXCEPT !.stage = "done", !.err = error,
                              !.view = View(buf, Num(0), 0),
                              !.buf = Consume(buf, r.n)]
               ELSE IF r.n # HEADER_SIZE
               THEN [f EXCEPT !.stage = "done", !.err = "invalidFrame",
                              !.view = View(buf, Num(0), 0),
                              !.buf = Consume(buf, r.n)]
               ELSE IF HeaderOf(buf) = Num(0)
               THEN [f EXCEPT !.stage = "done", !.err = error,
                              !.view = View(buf, Num(0), 0),
                              !.buf = Consume(buf, r.n)]
               ELSE [f EXCEPT !.stage = "payload", !.buf = buf]
    /\ UNCHANGED NotFrame

\* stream::asyncRead: the handler of the payload read.
ReadPayload ==
    /\ frame.kind = "stream"
    /\ frame.stage = "payload"
    /\ LET numDataBytes == HeaderOf(frame.buf)
           r == AsyncRead(numDataBytes,
                          frame.M + HEADER_SIZE - Len(frame.buf),
                          Len(frame.wire) - HEADER_SIZE, frame.end)
           buf == frame.buf
                    \o [i \in 1..r.n |-> AsChar(frame.wire[HEADER_SIZE + i])]
           error == ReadError(r.code)
           f == [frame EXCEPT !.n2 = r.n, !.stage = "done",
                              !.buf = Consume(buf, HEADER_SIZE + r.n)]
       IN /\ r.completes
          /\ frame' =
               IF error # "success"
               THEN [f EXCEPT !.err = error, !.view = View(buf, Num(0), 0)]
               ELSE IF Num(r.n) # numDataBytes
               THEN [f EXCEPT !.err = "invalidFrame",
                              !.view = View(buf, Num(0), 0)]
               ELSE [f EXCEPT !.err = error,
                              !.view = View(buf, numDataBytes, HEADER_SIZE)]
    /\ UNCHANGED NotFrame

\* socket::asyncReceiveFrom: the handler of the receive; the datagram is
\* cut to the buffer of maxMessageSize + HEADER_SIZE chars.
ReceiveDatagram ==
    /\ frame.kind = "datagram"
    /\ frame.stage = "wire"
    /\ LET size == frame.M + HEADER_SIZE
           n == Min2(Len(frame.wire), size)
           buf == [i \in 1..size |->
                      IF i <= n THEN AsChar(frame.wire[i]) ELSE 0]
           r == numDataBytesFromBuffer(buf, n, frame.bits)
           f == [frame EXCEPT !.n1 = n, !.stage = "done", !.buf = buf]
       IN frame' =
            IF ~r.ok
            THEN [f EXCEPT !.err = "invalidFrame",
                           !.view = View(buf, Num(0), 0)]
            ELSE [f EXCEPT !.err = "success",
                           !.view = View(buf, r.numDataBytes, HEADER_SIZE)]
    /\ UNCHANGED NotFrame

\* socket::asyncReceiveFrom: the deadline expires and no datagram came.
ReceiveNothing ==
    /\ frame.kind = "datagram"
    /\ frame.stage = "init"
    /\ frame' = [frame EXCEPT !.stage = "done", !.end = "timeout",
                              !.err = ReadError("timeout"),
                              !.buf = [i \in 1..(frame.M + HEADER_SIZE) |-> 0],
                              !.view = <<>>]
    /\ UNCHANGED NotFrame

SendFrameAny ==
    /\ frame.stage = "init"
    /\ \E p \in SeqUpTo(Chars, MaxLen) : SendFrame(p)
SendBytesAny ==
    /\ frame.stage = "init"
    /\ \E w \in SeqUpTo(Bytes, HEADER_SIZE + MaxLen),
          end \in {"open", "eof", "timeout"} : SendBytes(w, end)

NextFrame ==
    \/ Convert
    \/ SendFrameAny
    \/ SendBytesAny
    \/ ReadHeader
    \/ ReadPayload
    \/ ReceiveDatagram
    \/ ReceiveNothing

SpecFrame == InitFrame /\ [][NextFrame]_vars

\* The length that the first four bytes of the wire encode.
WireLength(wire) ==
    <<wire[1] * 256 + wire[2], wire[3] * 256 + wire[4]>>

\* C25: a payload no longer than maxMessageSize that was framed is read
\* back with success and as written, from a stream and from a datagram,
\* and a 32-bit number converted to big endian and back is the same.
C25_RoundTrip ==
    /\ (frame.kind \in {"stream", "datagram"} /\ frame.sent
        /\ frame.stage = "done" /\ Len(frame.p) <= frame.M)
          => frame.err = "success" /\ frame.view = frame.p
    /\ (frame.kind = "number" /\ frame.stage = "done")
          => frame.back = frame.num

C25_Witness ==
    /\ frame.kind = "stream"
    /\ frame.sent
    /\ frame.stage = "done"
    /\ Len(frame.p) = frame.M
    /\ frame.M > 0
    /\ frame.p[1] = -1
    /\ frame.view = frame.p

\* The chars of the n bytes of the wire that follow the header.
WirePayload(wire, n) == [i \in 1..n |-> AsChar(wire[HEADER_SIZE + i])]

\* What the claim of stream::asyncRead says of a read that has ended.
StreamReadAsClaimed ==
    LET N == WireLength(frame.wire) IN
    /\ frame.buf = <<>>
    /\ frame.n1 # HEADER_SIZE => frame.err = "invalidFrame"
    /\ frame.n1 = HEADER_SIZE =>
          /\ N = Num(0) => frame.err = "success" /\ frame.view = <<>>
          /\ (N # Num(0) /\ Num(frame.n2) # N) => frame.err = "invalidFrame"
          /\ (N # Num(0) /\ Num(frame.n2) = N) =>
                /\ frame.err = "success"
                /\ frame.view = WirePayload(frame.wire, frame.n2)

\* C26: a stream::asyncRead that has ended gave invalidFrame for a header
\* read of other than 4 bytes, success and an empty view for the length 0,
\* invalidFrame for a payload read of other than N bytes, success and the
\* N bytes after the header otherwise, and left the buffer empty.
C26_StreamRead ==
    (frame.kind = "stream" /\ frame.stage = "done") => StreamReadAsClaimed

\* C27: a datagram of b bytes that was received gave invalidFrame if b < 4
\* or b < 4 + N, for the length N in its header, and success with the N
\* bytes from offset 4 otherwise.
C27_DatagramReceive ==
    (frame.kind = "datagram" /\ frame.stage = "done" /\ frame.end = "open") =>
        LET b == frame.n1
            short == b < 4 \/ Less(Num(b), Plus(Num(4), WireLength(frame.wire)))
        IN /\ short => frame.err = "invalidFrame"
           /\ ~short =>
                 /\ frame.err = "success"
                 /\ frame.view =
                      WirePayload(frame.wire, WireLength(frame.wire)[2])

\* ---------------------------------------------------------------------
\* Part 8: ServiceServer (ServiceServer.h): advertiseService and cancel
\* under a Replacer manager, the accept loop and the accepted connections.
\* ---------------------------------------------------------------------

MaxAdvertise == 2
MaxConns == 2

\* The states of the accept chain: no AcceptState alive, an async_accept
\* outstanding, its completion posted, and the positions of the completion
\* handler.  "lost": control did not come back from handleService.
NoAccept == [pc |-> "none", h |-> 0, err |-> "none"]

\* ServiceServer(context, bindingPort, maxMessageSize): acceptor(context) is
\* not open, running{false}, an idle manager.
\* lastCall, nadv, ncancel, sinceCancel record the calls made on the server.
NewServer ==
    [om |-> IdleManager, running |-> FALSE, acceptor |-> "closed",
     acc |-> NoAccept, conns |-> <<>>, undefined |-> FALSE,
     lastCall |-> "none", nadv |-> 0, ncancel |-> 0, sinceCancel |-> FALSE]

InitServer ==
    /\ server = NewServer
    /\ locks = <<>>
    \* the variables of the other parts are not used
    /\ policy = "Queue"
    /\ mgr = IdleManager
    /\ nextOp = 0
    /\ ncancel = 0
    /\ nmoves = 0
    /\ notifiers = <<>>
    /\ dispatched = <<>>
    /\ finishCalls = <<>>
    /\ replaced = {}
    /\ dropped = {}
    /\ cancelStamp = 0
    /\ last = NoLast
    /\ component = "Receiver"
    /\ om = IdleManager
    /\ isOpen = FALSE
    /\ rops = <<>>
    /\ rnext = 0
    /\ rcancels = 0
    /\ handled = <<>>
    /\ canceledOps = {}
    /\ late = {}
    /\ execThreads = 1
    /\ handle = FALSE
    /\ tm = IdleManager
    /\ twait = "none"
    /\ tpc = "idle"
    /\ io = "none"
    /\ cpc = "idle"
    /\ result = "none"
    /\ seenOpen = FALSE
    /\ handlerCalls = 0
    /\ completionRan = FALSE
    /\ closeFirst = FALSE
    /\ closedAfterCompletion = FALSE
    /\ client = <<>>
    /\ calls = <<>>
    /\ timer = <<>>
    /\ tops = <<>>
    /\ waiter = <<>>
    /\ frame = <<>>

NotServer ==
    <<mgrVars, recvVars, timedVars, clientVars, timerVars, waitVars,
      codecVars, lockVars>>

\* ServiceServer::cancelOperation: running = false; close(acceptor).
\* Closing the acceptor completes an outstanding async_accept with
\* operation_aborted.
ServerCancelOperation(s) ==
    [s EXCEPT !.running = FALSE,
              !.acceptor = "closed",
              !.acc = IF @.pc = "waiting"
                      THEN [@ EXCEPT !.pc = "queued", !.err = "aborted"]
                      ELSE @]

\* accept: if (!acceptor.is_open()) acceptor = Acceptor{context, endpoint}
OpenAcceptor(s) == [s EXCEPT !.acceptor = "open"]

\* accept: acceptor.async_accept(socketRef, handler), the handler holding the
\* AcceptState of handler h.  On an acceptor that is not open the accept
\* completes at once with an error.
AsyncAccept(s, h) ==
    [s EXCEPT !.acc = IF s.acceptor = "open"
                      THEN [pc |-> "waiting", h |-> h, err |-> "none"]
                      ELSE [pc |-> "queued", h |-> h, err |-> "error"]]

\* ServiceServer::accept
ServerAccept(s, h) == AsyncAccept(OpenAcceptor(s), h)

\* ServiceServer::advertiseServiceOperation: running = true; a new
\* AcceptState; accept(acceptState).
advertiseServiceOperation(s, h) ==
    ServerAccept([s EXCEPT !.running = TRUE, !.sinceCancel = FALSE], h)

\* The calls a manager call makes on the server: cancelingOperation and the
\* operations it invokes.
ServerApply(s, r) ==
    LET s1 == [s EXCEPT !.om = r.mgr]
        s2 == IF r.cancelings > 0 THEN ServerCancelOperation(s1) ELSE s1
    IN IF r.dispatch = <<>> THEN s2
       ELSE advertiseServiceOperation(s2, r.dispatch[1])

\* The last shared_ptr to the AcceptState is released: its
\* FinishedOperationNotifier calls finishOperation, which invokes a pending
\* advertiseService.
ReleaseAcceptState(s) ==
    LET r == finishOperation("Replacer", s.om)
        s1 == [s EXCEPT !.om = r.mgr, !.acc = NoAccept]
    IN IF r.dispatch = <<>> THEN s1
       ELSE advertiseServiceOperation(s1, r.dispatch[1])

\* The ServiceState of a completion that does not call handleService is
\* destroyed with its socket: the connection, if one was accepted, is dropped.
DropAccepted(s) ==
    IF s.acc.err = "ok"
    THEN [s EXCEPT !.conns[Len(s.conns)].stage = "dropped"]
    ELSE s

\* ServiceServer::advertiseService(h): the handlers are numbered by call.
AdvertiseService ==
    /\ server # <<>>
    /\ ~server.undefined
    /\ server.nadv < MaxAdvertise
    /\ LET h == server.nadv + 1
           r == startOperation("Replacer", server.om, h)
           s == [server EXCEPT !.nadv = h, !.lastCall = "advertise"]
       IN server' = ServerApply(s, r)
    /\ UNCHANGED NotServer

\* ServiceServer::cancel
CancelServer ==
    /\ server # <<>>
    /\ ~server.undefined
    /\ server.ncancel < MaxCancels
    /\ LET r == cancelOperation(server.om)
           s == [server EXCEPT !.ncancel = @ + 1, !.lastCall = "cancel",
                               !.sinceCancel = TRUE]
       IN server' = ServerApply(s, r)
    /\ UNCHANGED NotServer

\* A client connects: the outstanding async_accept completes without error
\* and its completion handler is posted.
ConnectionArrives ==
    /\ server # <<>>
    /\ ~server.undefined
    /\ server.acc.pc = "waiting"
    /\ server.acceptor = "open"
    /\ Len(server.conns) < MaxConns
    /\ server' =
         [server EXCEPT
             !.acc.pc = "queued", !.acc.err = "ok",
             !.conns = Append(@, [h |-> server.acc.h, stage |-> "accepted",
                                  code |-> "none", by |-> 0, sent |-> FALSE,
                                  afterCancel |-> server.sinceCancel,
                                  want |-> IF server.lastCall = "advertise"
                                           THEN server.nadv ELSE 0])]
    /\ UNCHANGED NotServer

\* The outstanding async_accept fails (a connection aborted before it was
\* accepted).
AcceptFails ==
    /\ server # <<>>
    /\ ~server.undefined
    /\ server.acc.pc = "waiting"
    /\ server.acceptor = "open"
    /\ server' = [server EXCEPT !.acc.pc = "queued", !.acc.err = "error"]
    /\ UNCHANGED NotServer

\* The accept completion handler: if (!running) return;
CompletionTestsRunning ==
    /\ server # <<>>
    /\ ~server.undefined
    /\ server.acc.pc = "queued"
    /\ server' = IF ~server.running
                 THEN ReleaseAcceptState(DropAccepted(server))
                 ELSE [server EXCEPT !.acc.pc = "testError"]
    /\ UNCHANGED NotServer

\* The accept completion handler:
\* if (!acceptError && !operationManager.isCanceled()) handleService(...)
CompletionTestsError ==
    /\ server # <<>>
    /\ ~server.undefined
    /\ server.acc.pc = "testError"
    /\ server' = IF server.acc.err = "ok" /\ ~server.om.canceled
                 THEN [server EXCEPT !.acc.pc = "handleService"]
                 ELSE [DropAccepted(server) EXCEPT !.acc.pc = "accept"]
    /\ UNCHANGED NotServer

\* bool handleService(...) starts the framed receive and flows off its end
\* without a return statement: the behaviour is undefined.  A build either
\* returns to the completion handler or does not (a trap, or the code that
\* follows the call removed as unreachable).
HandleServiceEnds == {"returns", "undefined"}

\* ServiceServer::handleService
HandleService(ends) ==
    /\ server # <<>>
    /\ ~server.undefined
    /\ server.acc.pc = "handleService"
    /\ LET s == [server EXCEPT !.conns[Len(server.conns)].stage = "receiving"]
       IN server' = IF ends = "returns"
                    THEN [s EXCEPT !.acc.pc = "accept"]
                    ELSE [s EXCEPT !.acc.pc = "lost", !.undefined = TRUE]
    /\ UNCHANGED NotServer

\* The accept completion handler, this->accept(acceptState): the test of
\* is_open and the new acceptor.
AcceptOpens ==
    /\ server # <<>>
    /\ ~server.undefined
    /\ server.acc.pc = "accept"
    /\ server' = [OpenAcceptor(server) EXCEPT !.acc.pc = "asyncAccept"]
    /\ UNCHANGED NotServer

\* The accept completion handler, this->accept(acceptState): async_accept.
AcceptArms ==
    /\ server # <<>>
    /\ ~server.undefined
    /\ server.acc.pc = "asyncAccept"
    /\ server' = AsyncAccept(server, server.acc.h)
    /\ UNCHANGED NotServer

\* message::asyncReceive: decoding if the bytes do not decode, the error of
\* stream::asyncRead otherwise.
ReceiveErrors == {"success", "aborted", "invalidFrame", "failedOperation"}

MessageReceiveError(error, decodes) ==
    IF ~decodes THEN "decoding" ELSE error

\* The handler of the framed receive of connection i: if (errorCode) return;
\* otherwise requestReceivedHandler and asyncSend of the response.
ReceiveCompletes(i, error, decodes) ==
    /\ server # <<>>
    /\ ~server.undefined
    /\ i \in 1..Len(server.conns)
    /\ server.conns[i].stage = "receiving"
    /\ LET code == MessageReceiveError(error, decodes)
       IN server' =
            IF code # "success"
            THEN [server EXCEPT !.conns[i].stage = "dropped",
                                !.conns[i].code = code]
            ELSE [server EXCEPT !.conns[i].stage = "sending",
                                !.conns[i].code = code,
                                !.conns[i].by = server.conns[i].h,
                                !.conns[i].sent = TRUE]
    /\ UNCHANGED NotServer

\* The handler of asyncSend does nothing; the ServiceState is released.
SendCompletes(i) ==
    /\ server # <<>>
    /\ ~server.undefined
    /\ i \in 1..Len(server.conns)
    /\ server.conns[i].stage = "sending"
    /\ server' = [server EXCEPT !.conns[i].stage = "done"]
    /\ UNCHANGED NotServer

HandleServiceAny == \E ends \in HandleServiceEnds : HandleService(ends)

ReceiveCompletesAny ==
    \E i \in 1..MaxConns, error \in ReceiveErrors, decodes \in BOOLEAN :
        ReceiveCompletes(i, error, decodes)

SendCompletesAny == \E i \in 1..MaxConns : SendCompletes(i)

NextServer ==
    \/ AdvertiseService
    \/ CancelServer
    \/ ConnectionArrives
    \/ AcceptFails
    \/ CompletionTestsRunning
    \/ CompletionTestsError
    \/ HandleServiceAny
    \/ AcceptOpens
    \/ AcceptArms
    \/ ReceiveCompletesAny
    \/ SendCompletesAny

SpecServer == InitServer /\ [][NextServer]_vars

\* The accept loop is alive: while the last call is an advertiseService, an
\* async_accept is outstanding or its completion handler is running.
AcceptLoopRuns ==
    server.lastCall = "advertise" => server.acc.pc \notin {"none", "lost"}

\* C28: a connection whose framed receive failed (timeout, invalid frame,
\* decode error, peer reset) had no requestReceivedHandler call and no
\* response sent, is dropped, and the accept loop keeps running.
C28_FailedReceiveIsSilent ==
    server # <<>> =>
        \A i \in 1..Len(server.conns) :
            server.conns[i].code \notin {"none", "success"} =>
                /\ server.conns[i].by = 0
                /\ ~server.conns[i].sent
                /\ server.conns[i].stage = "dropped"
                /\ AcceptLoopRuns

\* The server serves with handler h: it listens with an accept outstanding
\* whose connections are handled by h.
Serving(h) ==
    /\ server.acceptor = "open"
    /\ server.running
    /\ ~server.om.canceled
    /\ server.acc.pc = "waiting"
    /\ server.acc.h = h

\* C29: when the last call is advertiseService(h) and no accept completion
\* is outstanding, the server listens and serves with h; a connection
\* accepted after that call is answered by h or not at all.
C29_LatestHandlerServes ==
    server # <<>> =>
        /\ (server.lastCall = "advertise"
              /\ server.acc.pc \in {"none", "waiting"}) => Serving(server.nadv)
        /\ \A i \in 1..Len(server.conns) :
              (server.conns[i].want # 0 /\ server.conns[i].by # 0) =>
                  server.conns[i].by = server.conns[i].want

\* C30: since cancel() has returned and until the next advertiseService is
\* dispatched the acceptor is closed, and no connection accepted in that
\* time has its request handed to requestReceivedHandler.
C30_CancelClosesAcceptor ==
    server # <<>> =>
        /\ server.sinceCancel => server.acceptor = "closed"
        /\ \A i \in 1..Len(server.conns) :
              server.conns[i].afterCancel => server.conns[i].by = 0

\* ---------------------------------------------------------------------
\* Part 9: further properties of the components of Parts 2 to 8.
\* ---------------------------------------------------------------------

\* A receive whose async_receive_from has not completed, or whose completion
\* handler has not started to run.
Outstanding(o) == rops[o].pc \in {"wait", "queued"}

C32_ReceiveHandlerOnce ==
    component = "Receiver" =>
        \A o \in DOMAIN rops :
            (rops[o].pc = "done" /\ o = rnext /\ o \notin canceledOps) =>
                handled[o] \in {"success", "aborted", "failedOperation"}

\* C33: when the read stage of a ServiceClient call succeeds, the user
\* handler is invoked with success before socket.close() and before
\* finishedNotifier.notify(), which dispatches the next queued call.
C33_HandlerBeforeClose ==
    (client # <<>> /\ client.kind = "ServiceClient"
       /\ client.h.fin \in {"readHeader", "readPayload"}
       /\ client.h.err = "success") =>
        client.h.ran \cap {"close", "notify"} = {}

\* The user handler of operation o is about to run or runs: notify() has
\* returned and the handler has not.
HandlerRuns(o) == rops[o].pc = "notified"

\* C34: while the user handler of a receive or of a one-shot timeout runs
\* and no other operation is in flight, the manager is idle with nothing
\* pending; an asyncReceive or startTimeout made then is dispatched at once,
\* completes no operation and leaves an open socket open.
C34_HandlerAfterFinish ==
    /\ []((rops # <<>> /\ (\E o \in DOMAIN rops : HandlerRuns(o))
               /\ RInFlight = {}) =>
                (~om.running /\ om.pendingOperations = <<>>))
    /\ [][(rops # <<>> /\ rnext' = rnext + 1
             /\ (\E o \in DOMAIN rops : HandlerRuns(o)) /\ RInFlight = {}) =>
            /\ rops'[rnext'].pc = "wait"
            /\ \A o \in DOMAIN rops \ {rnext'} : rops'[o] = rops[o]
            /\ (isOpen => isOpen')]_vars

C34_Witness ==
    /\ component = "Receiver"
    /\ rops # <<>>
    /\ rcancels = 0
    /\ rops[1].pc = "notified"
    /\ rops[1].err = "success"
    /\ rops[2].pc = "queued"
    /\ rops[2].code = "ok"
    /\ isOpen

\* C35: the timer of every stage of a ServiceClient call with timeout T
\* expires T after the dispatch of the call, whatever time the earlier
\* stages took; a stage that starts when T has passed is started all the
\* same, with a timer that is due at once.
C35_StageDeadline ==
    (client # <<>> /\ client.kind = "ServiceClient") =>
        \A o \in DOMAIN calls :
            calls[o].st \in InFlightStages =>
                /\ calls[o].armed = calls[o].T
                /\ calls[o].run >= calls[o].T => Due(calls[o])

C35_Witness ==
    /\ client # <<>>
    /\ client.kind = "ServiceClient"
    /\ \E o \in DOMAIN calls :
          /\ calls[o].st = "readPayload"
          /\ calls[o].io = "pending"
          /\ calls[o].byHost
          /\ calls[o].start = calls[o].T
          /\ calls[o].run = calls[o].T
          /\ Due(calls[o])

\* The completion of the write stage of a ServiceClient call or of the send
\* of a DatagramSender runs in this step; the whole frame was transferred
\* exactly if the operation ended without error.
WriteCompletes(o) ==
    /\ calls[o].st \in {"write", "send"}
    /\ calls'[o].st # calls[o].st

WholeFrame(o) == calls[o].io = "ok"

\* The write reported e: e is given to the user handler, or, in a
\* ServiceClient, it is success and the read stage is started.
WriteReports(o, e) ==
    \/ client'.h.op = o /\ client'.h.fin = calls[o].st /\ client'.h.err = e
    \/ e = "success" /\ calls'[o].st = "readHeader"

CanceledAfterDispatch(o) == o \in canceledOps \/ o < rnext

\* The completion of operation o has read isCanceled() = true: it returned
\* at its test although its wait ended without error.
ObservedCanceled(o) ==
    /\ rops[o].pc = "drop"
    /\ rops[o].code = "ok"

\* C37: the completion of a dispatched operation observes isCanceled() =
\* true only if cancelOperation was called after the operation was
\* dispatched; a cancel on an idle component does not reach the operations
\* submitted later.
C37_CanceledOnlyAfterDispatch ==
    \A o \in DOMAIN rops :
        ObservedCanceled(o) => CanceledAfterDispatch(o)

\* The completion of a read stage of call o runs in this step.
ReadCompletes(o) ==
    /\ calls[o].st \in {"readHeader", "readPayload"}
    /\ calls'[o].st # calls[o].st

\* The error with which the framed read of call o ends: the error of the
\* timed operation on the socket of the client.
FramedReadError(o) == TimedError(client.open, calls[o].io)

\* C38: when the framed read of a call ends with an error E, the handler of
\* message::asyncReceive is given E, whatever the decoder makes of the empty
\* view: the user handler of the call receives E and never decoding.
C38_ReadErrorKept ==
    [][(client # <<>> /\ client.kind = "ServiceClient") =>
         \A o \in DOMAIN calls :
             (ReadCompletes(o) /\ FramedReadError(o) # "success") =>
                 /\ client'.h.op = o
                 /\ client'.h.err = FramedReadError(o)]_vars

\* Call o of a ServiceClient sends or receives on the socket of the client.
UsesConnection(o) ==
    /\ calls[o].st \in {"write", "readHeader", "readPayload"}
    /\ calls[o].io = "pending"
    /\ client.open

\* C39: a ServiceClient whose manager is idle has its socket closed and is
\* connected to no server; at most one call is in flight, and a call that
\* sends or receives does so on the connection to the server of its own
\* call; a call is dispatched on a socket that is not connected.
C39_OneCallOneConnection ==
    /\ []((client # <<>> /\ client.kind = "ServiceClient") =>
            /\ ~client.om.running => (~client.open /\ client.peer = 0)
            /\ \A o, q \in DOMAIN calls :
                  (calls[o].st \in InFlightStages
                     /\ calls[q].st \in InFlightStages) => o = q
            /\ \A o \in DOMAIN calls :
                  UsesConnection(o) => client.peer = calls[o].host)
    /\ [][(client # <<>> /\ client.kind = "ServiceClient") =>
            \A o \in DOMAIN calls :
                (calls[o].st \notin InFlightStages
                   /\ calls'[o].st \in InFlightStages) =>
                      client'.peer = 0]_vars

C39_Witness ==
    /\ client # <<>>
    /\ client.kind = "ServiceClient"
    /\ calls[1].st = "done"
    /\ client.h.op = 1
    /\ client.h.err = "failedOperation"
    /\ client.h.fin = "connect"
    /\ UsesConnection(2)
    /\ calls[2].st = "readPayload"
    /\ client.peer = 2

\* ---------------------------------------------------------------------
\* Part 10: the mutexes of the library (AsyncOperationManager.h, Timer.h,
\* Closeable.h, Wait.h, Wait.cpp). A thread holds a stack of locks, released
\* in the reverse order (std::lock_guard), and asks for the locks that the
\* code it runs under its innermost lock asks for.
\* ---------------------------------------------------------------------

MaxThreads == 3

MaxDepth == 3

Threads == 1..MaxThreads

\* The mutex of the manager of a component, of the manager of a Timer, and
\* of a Waiter.
LockNames == {"component", "timer", "waiter"}

\* AsyncOperationManager::mutex is a std::recursive_mutex; Waiter::mutex is
\* a std::mutex.
Recursive(l) == l \in {"component", "timer"}

\* Mutant: the handler of a timeout is invoked inside finishOperation of the
\* Timer, and takes the lock of the component it closes.
CallsUnder_TimerCallsComponent(l) ==
    CASE l = "none" -> LockNames
      [] l = "component" -> {"component", "timer"}
      [] l = "timer" -> {"timer", "component"}
      [] OTHER -> {}

\* The locks asked for by the code that runs while l is the innermost lock
\* of the thread.
\* none: a thread of the user or a handler run by the executor calls a
\*   component, a Timer (timer->cancel() of a completion, notify() of a
\*   timeout), setReady, setWaiting or await.
\* component: the operation run by startOperation or finishOperation starts
\*   the Timer of closeable::timedAsyncOperation; a FinishedOperationNotifier
\*   destroyed in it calls finishOperation of the same manager. The
\*   cancelingOperation closes the handle and takes no lock.
\* timer: startTimeoutOperation and timer.cancel take no other lock; the
\*   notifier of a state destroyed in them re-enters the manager of the Timer;
\*   the timeout handler runs after notify() has returned.
\* waiter: ready is assigned and the expression is evaluated, no call.
CallsUnder(l) ==
    CASE l = "none" -> LockNames
      [] l = "component" -> {"component", "timer"}
      [] l = "timer" -> {"timer"}
      [] OTHER -> {}

NewLocks == [held |-> [t \in Threads |-> <<>>],
             want |-> [t \in Threads |-> "none"]]

Innermost(t) ==
    IF locks.held[t] = <<>> THEN "none"
    ELSE locks.held[t][Len(locks.held[t])]

Holds(t, l) == \E i \in DOMAIN locks.held[t] : locks.held[t][i] = l

\* lock(): the mutex is free, or it is recursive and owned by the caller.
CanLock(t, l) ==
    \A u \in Threads : Holds(u, l) => (u = t /\ Recursive(l))

InitLocks ==
    /\ locks = NewLocks
        \* the variables of the other parts are not used
    /\ server = <<>>
    /\ policy = "Queue"
    /\ mgr = IdleManager
    /\ nextOp = 0
    /\ ncancel = 0
    /\ nmoves = 0
    /\ notifiers = <<>>
    /\ dispatched = <<>>
    /\ finishCalls = <<>>
    /\ replaced = {}
    /\ dropped = {}
    /\ cancelStamp = 0
    /\ last = NoLast
    /\ component = "Receiver"
    /\ om = IdleManager
    /\ isOpen = FALSE
    /\ rops = <<>>
    /\ rnext = 0
    /\ rcancels = 0
    /\ handled = <<>>
    /\ canceledOps = {}
    /\ late = {}
    /\ execThreads = 1
    /\ handle = FALSE
    /\ tm = IdleManager
    /\ twait = "none"
    /\ tpc = "idle"
    /\ io = "none"
    /\ cpc = "idle"
    /\ result = "none"
    /\ seenOpen = FALSE
    /\ handlerCalls = 0
    /\ completionRan = FALSE
    /\ closeFirst = FALSE
    /\ closedAfterCompletion = FALSE
    /\ client = <<>>
    /\ calls = <<>>
    /\ timer = <<>>
    /\ tops = <<>>
    /\ waiter = <<>>
    /\ frame = <<>>

NotLocks ==
    <<mgrVars, recvVars, timedVars, clientVars, timerVars, waitVars,
      codecVars, serverVars>>

\* Thread t reaches std::lock_guard<..> lock{mutex} of lock l.
LockRequest(t, l) ==
    /\ locks.want[t] = "none"
    /\ Len(locks.held[t]) < MaxDepth
    /\ l \in CallsUnder(Innermost(t))
    /\ locks' = [locks EXCEPT !.want[t] = l]
    /\ UNCHANGED NotLocks

\* The constructor of the guard returns: t owns the mutex.
LockAcquire(t) ==
    /\ locks.want[t] # "none"
    /\ CanLock(t, locks.want[t])
    /\ locks' = [locks EXCEPT !.held[t] = Append(@, locks.want[t]),
                              !.want[t] = "none"]
    /\ UNCHANGED NotLocks

\* The guard of the innermost lock goes out of scope.
LockRelease(t) ==
    /\ locks.want[t] = "none"
    /\ locks.held[t] # <<>>
    /\ locks' = [locks EXCEPT !.held[t] = SubSeq(@, 1, Len(@) - 1)]
    /\ UNCHANGED NotLocks

\* Waiter::await on a thread that does not run the context: cond.wait(lock)
\* releases the mutex and takes it again when the thread is woken.
CondWait(t) ==
    /\ locks.want[t] = "none"
    /\ locks.held[t] = <<"waiter">>
    /\ locks' = [locks EXCEPT !.held[t] = <<>>, !.want[t] = "waiter"]
    /\ UNCHANGED NotLocks

LockRequestAny == \E t \in Threads : \E l \in LockNames : LockRequest(t, l)
LockAcquireAny == \E t \in Threads : LockAcquire(t)
LockReleaseAny == \E t \in Threads : LockRelease(t)
CondWaitAny == \E t \in Threads : CondWait(t)

NextLocks ==
    \/ LockRequestAny
    \/ LockAcquireAny
    \/ LockReleaseAny
    \/ CondWaitAny

SpecLocks == InitLocks /\ [][NextLocks]_vars

\* Thread t waits for a lock that thread u owns and that t cannot take.
WaitsOn(t, u) ==
    /\ locks.want[t] # "none"
    /\ Holds(u, locks.want[t])
    /\ (u # t \/ ~Recursive(locks.want[t]))

\* C40: a thread that asks again for a manager lock it holds takes it
\* without waiting, and in no set of threads does every thread wait for a
\* lock owned by a thread of the set: no thread waits on itself and no
\* threads wait on each other in a cycle.
C40_NoLockCycle ==
    locks # <<>> =>
        /\ \A t \in Threads :
              (locks.want[t] # "none" /\ Holds(t, locks.want[t])) =>
                  ENABLED LockAcquire(t)
        /\ \A S \in SUBSET Threads :
              S # {} => \E t \in S : \A u \in S : ~WaitsOn(t, u)

C40_Witness ==
    /\ locks # <<>>
    /\ locks.held[1] = <<"component", "component", "timer">>
    /\ locks.want[2] = "component"
    /\ locks.held[3] = <<"waiter">>
    /\ WaitsOn(2, 1)

====
